---- MODULE Spec2Model ----
(***************************************************************************)
(* A model of ransaq: the relational store behind db::Client (dimension    *)
(* upserts, the product upsert, the three association reconcilers) and the *)
(* crawl pipeline of crawler::crawl.                                       *)
(*                                                                         *)
(* The SQLite store is modelled at statement granularity: every awaited    *)
(* query is one atomic step, a transaction works on a private copy of the  *)
(* table it writes and installs it on commit, and writers are serialised   *)
(* by a single write lock (journal_mode = WAL).                            *)
(***************************************************************************)
EXTENDS Integers, Sequences, FiniteSets

(***************************************************************************)
(* Bounds of the model.                                                    *)
(***************************************************************************)
NumDbWorkers == 2   \* concurrent callers of the store
NumProducts == 2    \* products rows present when reconciling
MaxKey == 2         \* dimension / category rows present when reconciling
MaxTime == 1        \* last second of the wall clock
MaxCalls == 2       \* store calls begun in one behaviour
NumWorkers == 2     \* product tasks in the model (crawl spawns 8)
Capacity == 1       \* channel capacity in the model (crawl uses 8)
MaxPages == 2       \* catalog pages that can be served
PageSize == 2       \* stubs on a catalog page
NumNames == 2       \* distinct names handed to the dimension upserts
NumCodes == 2       \* distinct saq_code values handed to upsert_product
NumUrls == 2        \* distinct urls handed to upsert_category
NumPersisters == 1  \* concurrent persist_product calls
MaxPersists == 1    \* persist_product calls begun in one behaviour
MaxSizeNumber == 225 \* digits of the volumes given to parse_size
MaxGrapeParts == 2  \* comma-separated parts of a grape variety text

DbWorkers == 1..NumDbWorkers

(***************************************************************************)
(* Option<T> is the set of at most one value.                              *)
(***************************************************************************)
None == {}
Some(v) == {v}
Unwrap(opt) == CHOOSE v \in opt : TRUE

Range(s) == {s[i] : i \in 1..Len(s)}

VARIABLES
  now,          \* the wall clock read by datetime('now', 'utc'), in seconds
  assoc,        \* the committed association tables, one set of rows per kind
  wlock,        \* the connection holding SQLite's write lock, 0 when free
  call,         \* per store caller: the call in progress and its position
  ncalls,       \* store calls begun so far
  last,         \* per kind and product: the latest committed reconciliation
  dims,         \* the dimension tables, one set of rows per table
  returned,     \* per dimension table and name: the ids upserts have returned
  products,     \* the products table
  queue,        \* the stubs in the bounded channel, oldest first
  closed,       \* whether the channel is closed
  producer,     \* the catalog page task: position, page, stubs left to send
  workers,      \* the product tasks: position, stub in hand, result
  driver,       \* crawl itself: what it awaits and what it returned
  persisted,    \* per stub: how often persist_product completed for it
  first_failure,\* the error of the task that failed first, if any
  handled,      \* per stub: how often it was received and how often fetched
  persist,      \* per store caller: its persist_product frame
  eval,         \* the pure function under evaluation: argument and result
  conns         \* per store caller: the pool connections it holds

dbvars ==
  <<now, assoc, wlock, call, ncalls, last, dims, returned, products, eval,
    conns>>
crawlvars ==
  <<queue, closed, producer, workers, driver, persisted, first_failure,
    handled, persist>>
vars == <<dbvars, crawlvars>>

(***************************************************************************)
(* Association kinds: product_special_features, product_grape_varieties    *)
(* and product_categories.                                                 *)
(***************************************************************************)
Kinds == {"special_features", "grape_varieties", "categories"}

ProductIds == 1..NumProducts
KeyIds == 1..MaxKey
Percentages == {None, Some(95)}

(***************************************************************************)
(* i64::to_string and the join of to_value_list, character by character.   *)
(***************************************************************************)
DigitChars == <<"0", "1", "2", "3", "4", "5", "6", "7", "8", "9">>
DigitChar(d) == DigitChars[d + 1]

RECURSIVE to_string(_)
to_string(n) ==
  IF n < 10 THEN <<DigitChar(n)>>
  ELSE to_string(n \div 10) \o <<DigitChar(n % 10)>>

RECURSIVE to_value_list(_)
to_value_list(list) ==
  IF list = <<>> THEN <<>>
  ELSE IF Len(list) = 1 THEN to_string(list[1])
  ELSE to_string(list[1]) \o <<",">> \o to_value_list(Tail(list))

(***************************************************************************)
(* SQLite's comparison of an INTEGER column with a bound TEXT value, as in *)
(* "special_feature_id not in (?2)": x NOT IN (y) is NOT (x = +y), NUMERIC *)
(* affinity is applied to the text operand, which turns it into an integer *)
(* only when the whole text is a well-formed integer literal; an integer   *)
(* never equals a value that stayed text.                                  *)
(***************************************************************************)
IsDigit(c) == \E d \in 0..9 : DigitChar(d) = c
DigitVal(c) == CHOOSE d \in 0..9 : DigitChar(d) = c
IsIntegerLiteral(s) == Len(s) > 0 /\ \A i \in 1..Len(s) : IsDigit(s[i])

RECURSIVE TextToInteger(_)
TextToInteger(s) ==
  IF Len(s) = 0 THEN 0
  ELSE TextToInteger(SubSeq(s, 1, Len(s) - 1)) * 10 + DigitVal(s[Len(s)])

SqlIntegerEqText(x, s) == IsIntegerLiteral(s) /\ TextToInteger(s) = x
SqlNotIn(x, s) == ~SqlIntegerEqText(x, s)

(***************************************************************************)
(* Schema: an association row is unique by (product_id, key) and gets both *)
(* timestamps from column defaults when inserted.                          *)
(***************************************************************************)
AssocConflict(rows, p, k) == {r \in rows : r.product_id = p /\ r.key = k}

NewAssocRow(p, k, pct, t) ==
  [product_id |-> p, key |-> k, percentage |-> pct,
   created_at |-> t, updated_at |-> t]

(***************************************************************************)
(* The per-member upsert statements.                                       *)
(***************************************************************************)
InsertProductSpecialFeature(rows, p, k, t) ==
  IF AssocConflict(rows, p, k) = {}
  THEN rows \cup {NewAssocRow(p, k, None, t)}
  ELSE {IF r \in AssocConflict(rows, p, k)
        THEN [r EXCEPT !.updated_at = t] ELSE r : r \in rows}

InsertProductGrapeVariety_keeps_percentage(rows, p, k, pct, t) ==
  IF AssocConflict(rows, p, k) = {}
  THEN rows \cup {NewAssocRow(p, k, pct, t)}
  ELSE {IF r \in AssocConflict(rows, p, k)
        THEN [r EXCEPT !.updated_at = t] ELSE r : r \in rows}

InsertProductGrapeVariety(rows, p, k, pct, t) ==
  IF AssocConflict(rows, p, k) = {}
  THEN rows \cup {NewAssocRow(p, k, pct, t)}
  ELSE {IF r \in AssocConflict(rows, p, k)
        THEN [r EXCEPT !.updated_at = t, !.percentage = pct] ELSE r : r \in rows}

InsertProductCategory(rows, p, k, t) ==
  IF AssocConflict(rows, p, k) = {}
  THEN rows \cup {NewAssocRow(p, k, None, t)}
  ELSE {IF r \in AssocConflict(rows, p, k)
        THEN [r EXCEPT !.updated_at = t] ELSE r : r \in rows}

UpsertMember(kind, rows, p, m, t) ==
  CASE kind = "special_features" -> InsertProductSpecialFeature(rows, p, m.id, t)
    [] kind = "grape_varieties" -> InsertProductGrapeVariety(rows, p, m.id, m.percentage, t)
    [] kind = "categories" -> InsertProductCategory(rows, p, m.id, t)

(***************************************************************************)
(* A batch delete without the condition on product_id.                     *)
(***************************************************************************)
DeleteNotIn_any_product(rows, p, value_list) ==
  {r \in rows : ~SqlNotIn(r.key, value_list)}

(***************************************************************************)
(* A delete that is skipped when the list of ids is empty.                 *)
(***************************************************************************)
DeleteNotIn_skips_empty(rows, p, value_list) ==
  IF value_list = <<>> THEN rows
  ELSE {r \in rows : ~(r.product_id = p /\ SqlNotIn(r.key, value_list))}

(***************************************************************************)
(* The batch delete: "delete from T where product_id = ?1 and key not in   *)
(* (?2)" with ?2 bound to the text built by to_value_list.                 *)
(***************************************************************************)
DeleteNotIn(rows, p, value_list) ==
  {r \in rows : ~(r.product_id = p /\ SqlNotIn(r.key, value_list))}

IdsOf(list) == [i \in 1..Len(list) |-> list[i].id]

(***************************************************************************)
(* Target lists: ids with a percentage for grape varieties, bare ids for   *)
(* the two other kinds; the lists enumerated hold distinct ids in          *)
(* ascending order and one percentage value per list.                      *)
(***************************************************************************)
Members(kind) ==
  IF kind = "grape_varieties"
  THEN [id : KeyIds, percentage : Percentages]
  ELSE [id : KeyIds, percentage : {None}]

TargetLists(kind) ==
  {list \in UNION {[1..m -> Members(kind)] : m \in 0..MaxKey} :
     \A i \in 1..Len(list), j \in 1..Len(list) :
       i < j => /\ list[i].id < list[j].id
                /\ list[i].percentage = list[j].percentage}

Idle == [op |-> "none", pc |-> "idle", kind |-> "none", product_id |-> 0]
NoLast == [has |-> FALSE, keys |-> {}]

RowsOf(rows, p) == {r \in rows : r.product_id = p}
KeysOf(rows, p) == {r.key : r \in RowsOf(rows, p)}

(***************************************************************************)
(* The callers are interchangeable tasks: they make their first call in    *)
(* index order.                                                            *)
(***************************************************************************)
CanBegin(w) ==
  /\ call[w].pc \in {"idle", "ok", "err"}
  /\ ncalls < MaxCalls
  /\ \A v \in DbWorkers : v < w => call[v].op # "none"

(***************************************************************************)
(* The reconcilers are called by persist_product, for one product at a     *)
(* time and in the order special features, grape varieties, categories; a  *)
(* failed call ends the persist of that product.  Product ids are row ids  *)
(* handed out in insertion order, so the n-th persist has an id of at most *)
(* n.                                                                      *)
(***************************************************************************)
NextKind(c) ==
  IF c.pc = "ok" /\ c.kind = "special_features" THEN "grape_varieties"
  ELSE IF c.pc = "ok" /\ c.kind = "grape_varieties" THEN "categories"
  ELSE "special_features"

NextProducts(c) ==
  IF c.pc = "ok" /\ c.kind # "categories" THEN {c.product_id}
  ELSE {p \in ProductIds : p <= ncalls + 1}

(***************************************************************************)
(* What a caller keeps of a call that returned: Ok(()) or the error, here  *)
(* with a note of whether a statement had been executed before the error.  *)
(***************************************************************************)
Returned(c, result, wrote) ==
  [op |-> c.op, pc |-> result, kind |-> c.kind, product_id |-> c.product_id,
   wrote |-> wrote]

(***************************************************************************)
(* SqlitePoolOptions::new().max_connections(10) for the 8 product tasks:   *)
(* the pool has two connections more than there are callers.               *)
(***************************************************************************)
MaxConnections == NumDbWorkers + 2

RECURSIVE ConnsUpTo(_)
ConnsUpTo(n) == IF n = 0 THEN 0 ELSE conns[n] + ConnsUpTo(n - 1)

InUse == ConnsUpTo(NumDbWorkers)

(***************************************************************************)
(* let mut conn = self.pool.acquire().await?: the caller gets a connection *)
(* while the pool has handed out fewer than max_connections, and waits     *)
(* otherwise.                                                              *)
(***************************************************************************)
Acquire(w) ==
  /\ InUse < MaxConnections
  /\ conns' = [conns EXCEPT ![w] = @ + 1]

(***************************************************************************)
(* A connection that goes back to the pool only when the call returns Ok.  *)
(***************************************************************************)
Scope_leaks_on_error(w) ==
  conns' = IF call'[w].pc = "ok"
           THEN [conns EXCEPT ![w] = @ - 1] ELSE conns

(***************************************************************************)
(* conn is a local of the store function: it is dropped, and with that     *)
(* handed back to the pool, when the function returns, be it with Ok or    *)
(* through a ? or a return Err(..).                                        *)
(***************************************************************************)
Scope(w) ==
  conns' = IF call'[w].pc \in {"ok", "err"}
           THEN [conns EXCEPT ![w] = @ - 1] ELSE conns

(***************************************************************************)
(* ensure_product_*: acquire a connection and begin a (deferred)           *)
(* transaction.                                                            *)
(***************************************************************************)
EnsureBegin(w) ==
  /\ CanBegin(w)
  /\ Acquire(w)
  /\ \E p \in NextProducts(call[w]) :
       \E list \in TargetLists(NextKind(call[w])) :
         call' = [call EXCEPT ![w] =
                    [op |-> "ensure", kind |-> NextKind(call[w]),
                     product_id |-> p, list |-> list, i |-> 1, work |-> {},
                     pc |-> IF list = <<>> THEN "delete" ELSE "upsert"]]
  /\ ncalls' = ncalls + 1
  /\ UNCHANGED <<now, assoc, wlock, last, dims, returned, products, eval, crawlvars>>

(***************************************************************************)
(* A failed statement whose earlier writes stay in the table, as they      *)
(* would had the statements run outside a transaction.                     *)
(***************************************************************************)
Rollback_keeps_writes(w) ==
  /\ call' = [call EXCEPT ![w] = Returned(call[w], "err", wlock = w)]
  /\ wlock' = IF wlock = w THEN 0 ELSE wlock
  /\ assoc' = IF wlock = w THEN [assoc EXCEPT ![call[w].kind] = call[w].work]
              ELSE assoc
  /\ UNCHANGED last

(***************************************************************************)
(* A failed statement: roll the transaction back and return the error.     *)
(***************************************************************************)
Rollback(w) ==
  /\ call' = [call EXCEPT ![w] = Returned(call[w], "err", wlock = w)]
  /\ wlock' = IF wlock = w THEN 0 ELSE wlock
  /\ UNCHANGED <<assoc, last>>

(***************************************************************************)
(* The rows a statement of w's transaction sees: its own uncommitted copy  *)
(* once it holds the write lock, the committed table before.               *)
(***************************************************************************)
TxRows(w) == IF wlock = w THEN call[w].work ELSE assoc[call[w].kind]

EnsureUpsert(w) ==
  /\ call[w].op = "ensure" /\ call[w].pc = "upsert"
  /\ wlock \in {0, w}
  /\ \E fails \in BOOLEAN :
       IF fails
       THEN Rollback(w)
       ELSE /\ call' = [call EXCEPT
                  ![w].work = UpsertMember(call[w].kind, TxRows(w),
                                call[w].product_id, call[w].list[call[w].i], now),
                  ![w].i = call[w].i + 1,
                  ![w].pc = IF call[w].i = Len(call[w].list)
                            THEN "delete" ELSE "upsert"]
            /\ wlock' = w
            /\ UNCHANGED <<assoc, last>>
  /\ UNCHANGED <<now, ncalls, dims, returned, products, eval, crawlvars>>
  /\ Scope(w)

EnsureDelete(w) ==
  /\ call[w].op = "ensure" /\ call[w].pc = "delete"
  /\ wlock \in {0, w}
  /\ \E fails \in BOOLEAN :
       IF fails
       THEN Rollback(w)
       ELSE /\ call' = [call EXCEPT
                  ![w].work = DeleteNotIn(TxRows(w), call[w].product_id,
                                to_value_list(IdsOf(call[w].list))),
                  ![w].pc = "commit"]
            /\ wlock' = w
            /\ UNCHANGED <<assoc, last>>
  /\ UNCHANGED <<now, ncalls, dims, returned, products, eval, crawlvars>>
  /\ Scope(w)

EnsureCommit(w) ==
  /\ call[w].op = "ensure" /\ call[w].pc = "commit"
  /\ wlock = w
  /\ \E fails \in BOOLEAN :
       IF fails
       THEN Rollback(w)
       ELSE /\ assoc' = [assoc EXCEPT ![call[w].kind] = call[w].work]
            /\ wlock' = 0
            /\ last' = [last EXCEPT ![call[w].kind][call[w].product_id] =
                          [has |-> TRUE, keys |-> Range(IdsOf(call[w].list))]]
            /\ call' = [call EXCEPT ![w] = Returned(call[w], "ok", TRUE)]
  /\ UNCHANGED <<now, ncalls, dims, returned, products, eval, crawlvars>>
  /\ Scope(w)

(***************************************************************************)
(* A second passes on the store's clock (datetime('now') counts seconds).  *)
(***************************************************************************)
Tick ==
  /\ now < MaxTime
  /\ now' = now + 1
  /\ UNCHANGED <<assoc, wlock, call, conns, ncalls, last, dims, returned, products, eval, crawlvars>>

(***************************************************************************)
(* The dimension tables of generate_upserts_by_name!, and the names        *)
(* upserted into them.                                                     *)
(***************************************************************************)
TableOrder ==
  <<"producers", "promoting_agents", "colors", "regions", "countries",
    "grape_varieties", "regulated_designations", "designations_of_origin",
    "classifications", "special_features">>

Tables == Range(TableOrder)

(***************************************************************************)
(* The name-keyed tables of the store: the ten dimension tables and        *)
(* categories.                                                             *)
(***************************************************************************)
NamedTables == Tables \cup {"categories"}

(***************************************************************************)
(* The ten functions are one macro body over the table name, so the tables *)
(* are interchangeable: the n-th call of a run uses one of the first n     *)
(* tables of the macro's list.                                             *)
(***************************************************************************)
NextTables ==
  {TableOrder[i] : i \in {j \in 1..Len(TableOrder) : j <= ncalls + 1}}

Names == 1..NumNames

(***************************************************************************)
(* Schema: id is the integer primary key (the next free rowid), name is    *)
(* unique, both timestamps default to the time of the insert.              *)
(***************************************************************************)
NextId(rows) ==
  IF rows = {} THEN 1
  ELSE (CHOOSE r \in rows : \A q \in rows : q.id <= r.id).id + 1

NameConflict(rows, name) == {r \in rows : r.name = name}

NewDimRow(rows, name, t) ==
  [id |-> NextId(rows), name |-> name, created_at |-> t, updated_at |-> t]

(***************************************************************************)
(* An upsert that replaces the row of a conflicting name by a new row.     *)
(***************************************************************************)
InsertOrReplace(rows, name, t) ==
  [rows |-> (rows \ NameConflict(rows, name)) \cup {NewDimRow(rows, name, t)},
   returning |-> Some(NextId(rows))]

(***************************************************************************)
(* "insert into T (name) values (?1) on conflict do nothing returning id": *)
(* the table afterwards and the id returned, if a row was inserted.        *)
(***************************************************************************)
InsertOnConflictDoNothing(rows, name, t) ==
  IF NameConflict(rows, name) = {}
  THEN [rows |-> rows \cup {NewDimRow(rows, name, t)},
        returning |-> Some(NextId(rows))]
  ELSE [rows |-> rows, returning |-> None]

(***************************************************************************)
(* "select id from T where name = ?1 limit 1": the ids the query can       *)
(* yield; none makes fetch_one fail with RowNotFound.                      *)
(***************************************************************************)
SelectIdByName(rows, name) == {r.id : r \in NameConflict(rows, name)}

(***************************************************************************)
(* upsert_<table>(name): acquire a connection.  The call notes whether     *)
(* another caller is upserting the same, not yet stored, name.             *)
(***************************************************************************)
UpsertBegin(w) ==
  /\ CanBegin(w)
  /\ Acquire(w)
  /\ \E t \in NextTables, n \in Names :
       call' = [call EXCEPT ![w] =
                  [op |-> "upsert", pc |-> "insert", table |-> t, name |-> n,
                   kind |-> "none", product_id |-> 0,
                   raced |-> /\ NameConflict(dims[t], n) = {}
                             /\ \E v \in DbWorkers \ {w} :
                                  /\ call[v].op = "upsert" /\ call[v].pc = "insert"
                                  /\ call[v].table = t /\ call[v].name = n]]
  /\ ncalls' = ncalls + 1
  /\ UNCHANGED <<now, assoc, wlock, last, dims, returned, products, eval, crawlvars>>

UpsertReturn(c, result, id, why) ==
  [op |-> c.op, pc |-> result, table |-> c.table, name |-> c.name,
   kind |-> c.kind, product_id |-> c.product_id, raced |-> c.raced,
   id |-> id, why |-> why]

(***************************************************************************)
(* The insert fetched with fetch_one: no row returned is an error.         *)
(***************************************************************************)
UpsertInsert_fetch_one(w) ==
  /\ call[w].op = "upsert" /\ call[w].pc = "insert"
  /\ wlock = 0
  /\ \E fails \in BOOLEAN :
       LET t == call[w].table
           n == call[w].name
           ins == InsertOnConflictDoNothing(dims[t], n, now)
       IN IF fails
          THEN /\ call' = [call EXCEPT ![w] = UpsertReturn(call[w], "err", 0, "store")]
               /\ UNCHANGED <<dims, returned>>
          ELSE /\ dims' = [dims EXCEPT ![t] = ins.rows]
               /\ IF ins.returning # None
                  THEN \E id \in ins.returning :
                         /\ call' = [call EXCEPT ![w] =
                                       UpsertReturn(call[w], "ok", id, "insert")]
                         /\ returned' = [returned EXCEPT ![t][n] = @ \cup {id}]
                  ELSE /\ call' = [call EXCEPT ![w] =
                                     UpsertReturn(call[w], "err", 0, "RowNotFound")]
                       /\ UNCHANGED returned
  /\ UNCHANGED <<now, assoc, wlock, ncalls, last, products, eval, crawlvars>>
  /\ Scope(w)

(***************************************************************************)
(* The insert, fetched with fetch_optional: the id of the new row, or no   *)
(* row on a conflict and then the lookup.                                  *)
(***************************************************************************)
UpsertInsert(w) ==
  /\ call[w].op = "upsert" /\ call[w].pc = "insert"
  /\ wlock = 0
  /\ \E fails \in BOOLEAN :
       LET t == call[w].table
           n == call[w].name
           ins == InsertOnConflictDoNothing(dims[t], n, now)
       IN IF fails
          THEN /\ call' = [call EXCEPT ![w] = UpsertReturn(call[w], "err", 0, "store")]
               /\ UNCHANGED <<dims, returned>>
          ELSE /\ dims' = [dims EXCEPT ![t] = ins.rows]
               /\ IF ins.returning # None
                  THEN \E id \in ins.returning :
                         /\ call' = [call EXCEPT ![w] =
                                       UpsertReturn(call[w], "ok", id, "insert")]
                         /\ returned' = [returned EXCEPT ![t][n] = @ \cup {id}]
                  ELSE /\ call' = [call EXCEPT ![w].pc = "select"]
                       /\ UNCHANGED returned
  /\ UNCHANGED <<now, assoc, wlock, ncalls, last, products, eval, crawlvars>>
  /\ Scope(w)

UpsertSelect(w) ==
  /\ call[w].op = "upsert" /\ call[w].pc = "select"
  /\ \E fails \in BOOLEAN :
       LET t == call[w].table
           n == call[w].name
           ids == SelectIdByName(dims[t], n)
       IN IF fails
          THEN /\ call' = [call EXCEPT ![w] = UpsertReturn(call[w], "err", 0, "store")]
               /\ UNCHANGED returned
          ELSE IF ids = {}
          THEN /\ call' = [call EXCEPT ![w] =
                             UpsertReturn(call[w], "err", 0, "RowNotFound")]
               /\ UNCHANGED returned
          ELSE \E id \in ids :
                 /\ call' = [call EXCEPT ![w] =
                               UpsertReturn(call[w], "ok", id, "select")]
                 /\ returned' = [returned EXCEPT ![t][n] = @ \cup {id}]
  /\ UNCHANGED <<now, assoc, wlock, ncalls, last, dims, products, eval, crawlvars>>
  /\ Scope(w)

(***************************************************************************)
(* The categories table and upsert_category.                               *)
(***************************************************************************)
Urls == {<<"https://www.saq.com/en/products/", u>> : u \in 1..NumUrls}

(***************************************************************************)
(* Schema: categories is a dimension table with a url and an optional      *)
(* parent_category_id that references categories.id.                       *)
(***************************************************************************)
NewCategoryRow(rows, name, url, parent_id, t) ==
  [id |-> NextId(rows), name |-> name, url |-> url,
   parent_category_id |-> parent_id, created_at |-> t, updated_at |-> t]

(***************************************************************************)
(* SQL's three-valued logic: "x != y" is NULL when either side is NULL,    *)
(* and "or" is true when a side is true, NULL when a side is NULL and the  *)
(* other is not true.  Columns and parameters are Option values.           *)
(***************************************************************************)
SqlNe(x, y) ==
  IF x = None \/ y = None THEN "null"
  ELSE IF x # y THEN "true" ELSE "false"

SqlOr(a, b) ==
  IF a = "true" \/ b = "true" THEN "true"
  ELSE IF a = "null" \/ b = "null" THEN "null"
  ELSE "false"

(***************************************************************************)
(* "where (url != excluded.url or parent_category_id !=                    *)
(* excluded.parent_category_id)": the update is applied to the row when    *)
(* the condition is true (not when it is false or NULL).                   *)
(***************************************************************************)
CategoryUpdateApplies(old, url, parent_id) ==
  SqlOr(SqlNe(Some(old.url), Some(url)),
        SqlNe(old.parent_category_id, parent_id)) = "true"

(***************************************************************************)
(* An upsert that updates the row on every conflict.                       *)
(***************************************************************************)
UpsertCategoryStmt_unconditional(rows, name, url, parent_id, t) ==
  IF NameConflict(rows, name) = {}
  THEN [rows |-> rows \cup {NewCategoryRow(rows, name, url, parent_id, t)},
        returning |-> Some(NextId(rows))]
  ELSE LET old == CHOOSE r \in rows : r.name = name
       IN [rows |-> (rows \ {old}) \cup
                      {[old EXCEPT !.url = url,
                                   !.parent_category_id = parent_id,
                                   !.updated_at = t]},
           returning |-> Some(old.id)]

(***************************************************************************)
(* "insert into categories (name, url, parent_category_id) values (?1, ?2, *)
(* ?3) on conflict do update set url = excluded.url, parent_category_id =  *)
(* excluded.parent_category_id where (...) returning id": the table        *)
(* afterwards and the id returned, if a row was inserted or updated.  The  *)
(* update list does not name updated_at.                                   *)
(***************************************************************************)
UpsertCategoryStmt(rows, name, url, parent_id, t) ==
  IF NameConflict(rows, name) = {}
  THEN [rows |-> rows \cup {NewCategoryRow(rows, name, url, parent_id, t)},
        returning |-> Some(NextId(rows))]
  ELSE LET old == CHOOSE r \in rows : r.name = name
       IN IF CategoryUpdateApplies(old, url, parent_id)
          THEN [rows |-> (rows \ {old}) \cup
                           {[old EXCEPT !.url = url,
                                        !.parent_category_id = parent_id]},
                returning |-> Some(old.id)]
          ELSE [rows |-> rows, returning |-> None]

(***************************************************************************)
(* The parents a caller can pass: none, or the id of a stored category     *)
(* (persist_product passes the id the previous upsert returned).           *)
(***************************************************************************)
ParentIds == {None} \cup {Some(r.id) : r \in dims["categories"]}

(***************************************************************************)
(* upsert_category(name, url, parent_id): acquire a connection.            *)
(***************************************************************************)
CategoryBegin(w) ==
  /\ CanBegin(w)
  /\ Acquire(w)
  /\ \E n \in Names, u \in Urls, parent_id \in ParentIds :
       call' = [call EXCEPT ![w] =
                  [op |-> "upsert_category", pc |-> "statement", name |-> n,
                   url |-> u, parent_id |-> parent_id,
                   kind |-> "none", product_id |-> 0]]
  /\ ncalls' = ncalls + 1
  /\ UNCHANGED <<now, assoc, wlock, last, dims, returned, products, eval, crawlvars>>

(***************************************************************************)
(* What the caller keeps of the call: the id returned and the statement it *)
(* came from, with a note of the row the upsert statement met, if any.     *)
(***************************************************************************)
CategoryReturn(c, result, id, why, met) ==
  [op |-> c.op, pc |-> result, name |-> c.name, url |-> c.url,
   parent_id |-> c.parent_id, kind |-> c.kind, product_id |-> c.product_id,
   id |-> id, why |-> why, met |-> met]

(***************************************************************************)
(* The upsert statement, fetched with fetch_optional: the id of the row    *)
(* inserted or updated, or no row and then the lookup by name.             *)
(***************************************************************************)
CategoryStatement(w) ==
  /\ call[w].op = "upsert_category" /\ call[w].pc = "statement"
  /\ wlock = 0
  /\ \E fails \in BOOLEAN :
       LET rows == dims["categories"]
           c == call[w]
           met == NameConflict(rows, c.name)
           up == UpsertCategoryStmt(rows, c.name, c.url, c.parent_id, now)
       IN IF fails
          THEN /\ call' = [call EXCEPT ![w] = CategoryReturn(c, "err", 0, "store", {})]
               /\ UNCHANGED dims
          ELSE /\ dims' = [dims EXCEPT !["categories"] = up.rows]
               /\ IF up.returning # None
                  THEN \E id \in up.returning :
                         call' = [call EXCEPT ![w] =
                                    CategoryReturn(c, "ok", id, "upsert", met)]
                  ELSE call' = [call EXCEPT ![w] =
                                  CategoryReturn(c, "select", 0, "none", met)]
  /\ UNCHANGED <<now, assoc, wlock, ncalls, last, returned, products, eval, crawlvars>>
  /\ Scope(w)

(***************************************************************************)
(* "select id from categories where name = ?1 limit 1", fetch_one.         *)
(***************************************************************************)
CategorySelect(w) ==
  /\ call[w].op = "upsert_category" /\ call[w].pc = "select"
  /\ \E fails \in BOOLEAN :
       LET found == SelectIdByName(dims["categories"], call[w].name)
           c == call[w]
       IN IF fails
          THEN call' = [call EXCEPT ![w] =
                          CategoryReturn(c, "err", 0, "store", c.met)]
          ELSE IF found = {}
          THEN call' = [call EXCEPT ![w] =
                          CategoryReturn(c, "err", 0, "RowNotFound", c.met)]
          ELSE \E id \in found :
                 call' = [call EXCEPT ![w] =
                            CategoryReturn(c, "ok", id, "select", c.met)]
  /\ UNCHANGED <<now, assoc, wlock, ncalls, last, dims, returned, products,
                 eval, crawlvars>>
  /\ Scope(w)

(***************************************************************************)
(* ProductUpsertFields: the values handed to upsert_product.  Three        *)
(* samples that differ in every field; the third has every optional field  *)
(* absent.                                                                 *)
(***************************************************************************)
Codes == 1..NumCodes

FieldsA ==
  [abv_percentage |-> Some(12),
   availability |-> "in_stock",
   classification_id |-> Some(1),
   color_id |-> Some(1),
   container_count |-> Some(1),
   container_milliliters |-> Some(750),
   country_id |-> Some(1),
   description |-> "dry",
   designation_of_origin_id |-> Some(1),
   image_url |-> "a.png",
   item_condition |-> "new",
   name |-> "Mercurey",
   price_cad |-> 20,
   producer_id |-> Some(1),
   product_of_quebec |-> Some("made_in_quebec"),
   promoting_agent_id |-> Some(1),
   region_id |-> Some(1),
   regulated_designation_id |-> Some(1),
   sugar_content_equality |-> Some("<"),
   sugar_content_grams_per_liter |-> Some(2),
   upc_code |-> Some("0001")]

FieldsB ==
  [abv_percentage |-> Some(5),
   availability |-> "out_of_stock",
   classification_id |-> Some(2),
   color_id |-> Some(2),
   container_count |-> Some(6),
   container_milliliters |-> Some(200),
   country_id |-> Some(2),
   description |-> "sweet",
   designation_of_origin_id |-> Some(2),
   image_url |-> "b.png",
   item_condition |-> "used",
   name |-> "Zinfandel",
   price_cad |-> 30,
   producer_id |-> Some(2),
   product_of_quebec |-> Some("origine_quebec"),
   promoting_agent_id |-> Some(2),
   region_id |-> Some(2),
   regulated_designation_id |-> Some(2),
   sugar_content_equality |-> Some(">"),
   sugar_content_grams_per_liter |-> Some(60),
   upc_code |-> Some("0002")]

FieldsNull ==
  [abv_percentage |-> None,
   availability |-> "out_of_stock",
   classification_id |-> None,
   color_id |-> None,
   container_count |-> None,
   container_milliliters |-> None,
   country_id |-> None,
   description |-> "sweet",
   designation_of_origin_id |-> None,
   image_url |-> "b.png",
   item_condition |-> "used",
   name |-> "Zinfandel",
   price_cad |-> 30,
   producer_id |-> None,
   product_of_quebec |-> None,
   promoting_agent_id |-> None,
   region_id |-> None,
   regulated_designation_id |-> None,
   sugar_content_equality |-> None,
   sugar_content_grams_per_liter |-> None,
   upc_code |-> None]

FieldSamples == {FieldsA, FieldsB, FieldsNull}

(***************************************************************************)
(* Schema: products.id is the integer primary key, saq_code is unique and  *)
(* both timestamps default to the time of the insert.                      *)
(***************************************************************************)
CodeConflict(rows, code) == {r \in rows : r.saq_code = code}

(***************************************************************************)
(* The row "insert into products (...) values (?1, ..., ?22)" adds.        *)
(***************************************************************************)
InsertedProductRow(rows, code, f, t) ==
  [id |-> NextId(rows), saq_code |-> code, created_at |-> t, updated_at |-> t,
     abv_percentage |-> f.abv_percentage,
     availability |-> f.availability,
     classification_id |-> f.classification_id,
     color_id |-> f.color_id,
     container_count |-> f.container_count,
     container_milliliters |-> f.container_milliliters,
     country_id |-> f.country_id,
     description |-> f.description,
     designation_of_origin_id |-> f.designation_of_origin_id,
     image_url |-> f.image_url,
     item_condition |-> f.item_condition,
     name |-> f.name,
     price_cad |-> f.price_cad,
     producer_id |-> f.producer_id,
     product_of_quebec |-> f.product_of_quebec,
     promoting_agent_id |-> f.promoting_agent_id,
     region_id |-> f.region_id,
     regulated_designation_id |-> f.regulated_designation_id,
     sugar_content_equality |-> f.sugar_content_equality,
     sugar_content_grams_per_liter |-> f.sugar_content_grams_per_liter,
     upc_code |-> f.upc_code]

(***************************************************************************)
(* An update list that also stamps created_at.                             *)
(***************************************************************************)
UpdatedProductRow_sets_created_at(old, f, t) ==
  [old EXCEPT
     !.created_at = t,
     !.updated_at = t,
     !.abv_percentage = f.abv_percentage,
     !.availability = f.availability,
     !.classification_id = f.classification_id,
     !.color_id = f.color_id,
     !.container_count = f.container_count,
     !.container_milliliters = f.container_milliliters,
     !.country_id = f.country_id,
     !.description = f.description,
     !.designation_of_origin_id = f.designation_of_origin_id,
     !.image_url = f.image_url,
     !.item_condition = f.item_condition,
     !.name = f.name,
     !.price_cad = f.price_cad,
     !.producer_id = f.producer_id,
     !.product_of_quebec = f.product_of_quebec,
     !.promoting_agent_id = f.promoting_agent_id,
     !.region_id = f.region_id,
     !.regulated_designation_id = f.regulated_designation_id,
     !.sugar_content_equality = f.sugar_content_equality,
     !.sugar_content_grams_per_liter = f.sugar_content_grams_per_liter,
     !.upc_code = f.upc_code]

(***************************************************************************)
(* An update list that leaves out upc_code.                                *)
(***************************************************************************)
UpdatedProductRow_without_upc(old, f, t) ==
  [old EXCEPT
     !.updated_at = t,
     !.abv_percentage = f.abv_percentage,
     !.availability = f.availability,
     !.classification_id = f.classification_id,
     !.color_id = f.color_id,
     !.container_count = f.container_count,
     !.container_milliliters = f.container_milliliters,
     !.country_id = f.country_id,
     !.description = f.description,
     !.designation_of_origin_id = f.designation_of_origin_id,
     !.image_url = f.image_url,
     !.item_condition = f.item_condition,
     !.name = f.name,
     !.price_cad = f.price_cad,
     !.producer_id = f.producer_id,
     !.product_of_quebec = f.product_of_quebec,
     !.promoting_agent_id = f.promoting_agent_id,
     !.region_id = f.region_id,
     !.regulated_designation_id = f.regulated_designation_id,
     !.sugar_content_equality = f.sugar_content_equality,
     !.sugar_content_grams_per_liter = f.sugar_content_grams_per_liter]

(***************************************************************************)
(* "on conflict do update set updated_at = (datetime('now', 'utc')),       *)
(* abv_percentage = excluded.abv_percentage, ..." applied to the row of    *)
(* the conflicting saq_code.                                               *)
(***************************************************************************)
UpdatedProductRow(old, f, t) ==
  [old EXCEPT
     !.updated_at = t,
     !.abv_percentage = f.abv_percentage,
     !.availability = f.availability,
     !.classification_id = f.classification_id,
     !.color_id = f.color_id,
     !.container_count = f.container_count,
     !.container_milliliters = f.container_milliliters,
     !.country_id = f.country_id,
     !.description = f.description,
     !.designation_of_origin_id = f.designation_of_origin_id,
     !.image_url = f.image_url,
     !.item_condition = f.item_condition,
     !.name = f.name,
     !.price_cad = f.price_cad,
     !.producer_id = f.producer_id,
     !.product_of_quebec = f.product_of_quebec,
     !.promoting_agent_id = f.promoting_agent_id,
     !.region_id = f.region_id,
     !.regulated_designation_id = f.regulated_designation_id,
     !.sugar_content_equality = f.sugar_content_equality,
     !.sugar_content_grams_per_liter = f.sugar_content_grams_per_liter,
     !.upc_code = f.upc_code]

(***************************************************************************)
(* A statement without the "on conflict (saq_code) do update" clause on a  *)
(* table without the unique index: every call adds a row.                  *)
(***************************************************************************)
UpsertProductStmt_plain_insert(rows, code, f, t) ==
  [rows |-> rows \cup {InsertedProductRow(rows, code, f, t)},
   returning |-> {NextId(rows)}]

(***************************************************************************)
(* The upsert statement of upsert_product: the table afterwards and the id *)
(* it returns.                                                             *)
(***************************************************************************)
UpsertProductStmt(rows, code, f, t) ==
  IF CodeConflict(rows, code) = {}
  THEN [rows |-> rows \cup {InsertedProductRow(rows, code, f, t)},
        returning |-> {NextId(rows)}]
  ELSE [rows |-> {IF r \in CodeConflict(rows, code)
                  THEN UpdatedProductRow(r, f, t) ELSE r : r \in rows},
        returning |-> {r.id : r \in CodeConflict(rows, code)}]

(***************************************************************************)
(* upsert_product(fields): acquire a connection, then run the statement.   *)
(***************************************************************************)
ProductBegin(w) ==
  /\ CanBegin(w)
  /\ Acquire(w)
  /\ \E code \in Codes, f \in FieldSamples :
       call' = [call EXCEPT ![w] =
                  [op |-> "upsert_product", pc |-> "statement",
                   saq_code |-> code, fields |-> f,
                   kind |-> "none", product_id |-> 0]]
  /\ ncalls' = ncalls + 1
  /\ UNCHANGED <<now, assoc, wlock, last, dims, returned, products, eval, crawlvars>>

FieldsMatch(r, f) == \A k \in DOMAIN f : r[k] = f[k]

(***************************************************************************)
(* What the caller keeps of the call: the id returned, with a note of      *)
(* whether the statement met a row of that code and changed a field of it. *)
(***************************************************************************)
ProductReturn(c, result, id, old) ==
  [op |-> c.op, pc |-> result, saq_code |-> c.saq_code, fields |-> c.fields,
   kind |-> c.kind, product_id |-> id, conflict |-> old # {},
   changed |-> \E o \in old : ~FieldsMatch(o, c.fields)]

ProductStatement(w) ==
  /\ call[w].op = "upsert_product" /\ call[w].pc = "statement"
  /\ wlock = 0
  /\ \E fails \in BOOLEAN :
       LET up == UpsertProductStmt(products, call[w].saq_code, call[w].fields, now)
       IN IF fails
          THEN /\ call' = [call EXCEPT ![w] = ProductReturn(call[w], "err", 0, {})]
               /\ UNCHANGED products
          ELSE /\ products' = up.rows
               /\ \E id \in up.returning :
                    call' = [call EXCEPT ![w] =
                      ProductReturn(call[w], "ok", id,
                        CodeConflict(products, call[w].saq_code))]
  /\ UNCHANGED <<now, assoc, wlock, ncalls, last, dims, returned, eval, crawlvars>>
  /\ Scope(w)

(***************************************************************************)
(* The crawl pipeline.                                                     *)
(***************************************************************************)
Workers == 1..NumWorkers

Stub(page, k) == (page - 1) * PageSize + k
PageStubs(page) == [k \in 1..PageSize |-> Stub(page, k)]
Stubs == 1..(MaxPages * PageSize)

(***************************************************************************)
(* Task results: not finished, Ok(()), or Err with the failing call and    *)
(* the task it failed in (0 for the producer).                             *)
(***************************************************************************)
Running == <<"running">>
Ok == <<"ok">>
Err(what, who) == <<"err", what, who>>
IsErr(r) == r[1] = "err"

NoteFailure(e) == IF first_failure = Running THEN e ELSE first_failure

(***************************************************************************)
(* The producer before its first page request has no response.             *)
(***************************************************************************)
NoResponse == [kind |-> "none", current_page |-> None, linked_data |-> "none"]

(***************************************************************************)
(* The frame of a persist_product call: the step it is at, the extracted   *)
(* product, the ids resolved so far, the list being built and the steps    *)
(* completed.                                                              *)
(***************************************************************************)
NoPersist ==
  [pc |-> "idle", at |-> "idle", n |-> 0, product |-> {}, ids |-> {},
   product_id |-> 0, list |-> <<>>, categories |-> <<>>, log |-> <<>>,
   result |-> Running]

InitPipeline ==
  /\ queue = <<>>
  /\ closed = FALSE
  /\ producer = [pc |-> "page", page_number |-> 1, page |-> <<>>,
                 result |-> Running, requested |-> <<>>, enqueued |-> <<>>,
                 response |-> NoResponse]
  /\ workers = [w \in Workers |-> [pc |-> "recv", stub |-> 0, result |-> Running]]
  /\ driver = [pc |-> "await_page", result |-> Running]
  /\ persisted = [s \in Stubs |-> 0]
  /\ first_failure = Running
  /\ handled = [s \in Stubs |-> [received |-> 0, fetched |-> 0]]
  /\ persist = [w \in DbWorkers |-> NoPersist]

(***************************************************************************)
(* No pure function is under evaluation while the pipeline or the store    *)
(* runs.                                                                   *)
(***************************************************************************)
NoEval == [fn |-> "none", arg |-> None, ret |-> None]

InitCrawl == InitPipeline /\ eval = NoEval

Alive == driver.pc # "exited"

(***************************************************************************)
(* What the catalog site can answer to the request of page p: no answer    *)
(* (the request or the body fails), or a document.  A document shows the   *)
(* number of the page it renders, or no pagination; the site renders page  *)
(* p while it has one and wraps around to another page past its end.  Its  *)
(* JSON-LD is malformed, has no offer catalog, or lists the stubs of the    *)
(* page rendered.                                                          *)
(***************************************************************************)
EchoedPages(p) == {q \in 1..MaxPages : q # p \/ p <= MaxPages}

Responses(p) ==
  {[kind |-> "error", current_page |-> None, linked_data |-> "none"],
   [kind |-> "html", current_page |-> None, linked_data |-> "catalog"]}
  \cup [kind : {"html"}, current_page : {Some(q) : q \in EchoedPages(p)},
        linked_data : {"catalog"}]
  \cup [kind : {"html"}, current_page : {Some(p)} \cap {Some(q) : q \in EchoedPages(p)},
        linked_data : {"malformed", "no_catalog"}]

(***************************************************************************)
(* A page fetch that reports another page number as an error.              *)
(***************************************************************************)
page_wrap_is_error(page_number, response) ==
  IF response.kind = "error" THEN <<"err", "page_request">>
  ELSE IF response.current_page = None THEN <<"err", "page_pagination">>
  ELSE IF response.current_page # Some(page_number)
  THEN <<"err", "page_number">>
  ELSE IF response.linked_data = "malformed" THEN <<"err", "page_linked_data">>
  ELSE IF response.linked_data = "no_catalog" THEN <<"panic">>
  ELSE <<"some", PageStubs(page_number)>>

(***************************************************************************)
(* Client::page(page_number) on a response: Err, a panic (the unwrap of    *)
(* the offer catalog), Ok(None) when the document renders another page,    *)
(* or Ok(Some(products)).                                                  *)
(***************************************************************************)
page(page_number, response) ==
  IF response.kind = "error" THEN <<"err", "page_request">>
  ELSE IF response.current_page = None THEN <<"err", "page_pagination">>
  ELSE IF response.current_page # Some(page_number) THEN <<"none">>
  ELSE IF response.linked_data = "malformed" THEN <<"err", "page_linked_data">>
  ELSE IF response.linked_data = "no_catalog" THEN <<"panic">>
  ELSE <<"some", PageStubs(page_number)>>

(***************************************************************************)
(* A producer that returns the page error and leaves the channel open.     *)
(***************************************************************************)
PageFailed_no_close(e, response) ==
  /\ UNCHANGED closed
  /\ producer' = [producer EXCEPT !.pc = "done", !.result = e,
                    !.response = response]
  /\ first_failure' = NoteFailure(e)

(***************************************************************************)
(* Err(err) => { send.close(); return Err(err); } and likewise the end of  *)
(* the task by a panic, which drops the only sender.                       *)
(***************************************************************************)
PageFailed(e, response) ==
  /\ closed' = TRUE
  /\ producer' = [producer EXCEPT !.pc = "done", !.result = e,
                    !.response = response]
  /\ first_failure' = NoteFailure(e)

(***************************************************************************)
(* The loop of the producer comes to page_client.page(page_number): the    *)
(* request for the page is sent.  Nothing before it looks at the channel.  *)
(***************************************************************************)
ProducerRequest ==
  /\ Alive /\ producer.pc = "page"
  /\ producer' = [producer EXCEPT !.pc = "fetch",
                    !.requested = Append(@, producer.page_number)]
  /\ UNCHANGED <<queue, closed, workers, driver, persisted, first_failure,
                 handled, persist, dbvars>>

(***************************************************************************)
(* The page request completes and the producer matches on the result.      *)
(***************************************************************************)
ProducerPage ==
  /\ Alive /\ producer.pc = "fetch"
  /\ \E response \in Responses(producer.page_number) :
       LET r == page(producer.page_number, response)
       IN CASE r[1] = "some" ->
                 /\ producer' = [producer EXCEPT !.page = r[2], !.pc = "send",
                      !.response = response]
                 /\ UNCHANGED <<closed, first_failure>>
            [] r[1] = "none" ->
                 /\ closed' = TRUE
                 /\ producer' = [producer EXCEPT !.pc = "done", !.result = Ok,
                      !.response = response]
                 /\ UNCHANGED first_failure
            [] r[1] = "err" -> PageFailed(Err(r[2], 0), response)
            [] r[1] = "panic" -> PageFailed(Err("panic", 0), response)
  /\ UNCHANGED <<queue, workers, driver, persisted,
                 handled, persist, dbvars>>

(***************************************************************************)
(* A channel without a capacity.                                           *)
(***************************************************************************)
HasRoom_unbounded == TRUE

(***************************************************************************)
(* async_channel::bounded(8): a send completes while the channel holds     *)
(* fewer stubs than its capacity.                                          *)
(***************************************************************************)
HasRoom == Len(queue) < Capacity

(***************************************************************************)
(* A producer that goes on to the page after the next.                     *)
(***************************************************************************)
NextPageNumber_skips(page_number) == page_number + 2

(***************************************************************************)
(* page_number += 1                                                        *)
(***************************************************************************)
NextPageNumber(page_number) == page_number + 1

(***************************************************************************)
(* A send that does not look at whether the channel is closed.             *)
(***************************************************************************)
ProducerSend_ignores_close ==
  /\ Alive /\ producer.pc = "send"
  /\ HasRoom
  /\ queue' = Append(queue, Head(producer.page))
  /\ producer' =
       IF Len(producer.page) = 1
       THEN [producer EXCEPT !.page = <<>>, !.pc = "page",
               !.page_number = NextPageNumber(producer.page_number),
               !.enqueued = Append(@, Head(producer.page))]
       ELSE [producer EXCEPT !.page = Tail(producer.page),
               !.enqueued = Append(@, Head(producer.page))]
  /\ UNCHANGED <<closed, workers, driver, persisted, first_failure,
                 handled, persist, dbvars>>

(***************************************************************************)
(* send.send(product).await: fails once the channel is closed, waits while *)
(* it is full, appends the stub otherwise; after the last stub of the page *)
(* the producer moves on to the next page.                                 *)
(***************************************************************************)
ProducerSend ==
  /\ Alive /\ producer.pc = "send"
  /\ IF closed
     THEN /\ producer' = [producer EXCEPT !.pc = "done",
               !.result = Err("send", 0)]
          /\ first_failure' = NoteFailure(Err("send", 0))
          /\ UNCHANGED queue
     ELSE /\ HasRoom
          /\ queue' = Append(queue, Head(producer.page))
          /\ producer' =
               IF Len(producer.page) = 1
               THEN [producer EXCEPT !.page = <<>>, !.pc = "page",
                       !.page_number = NextPageNumber(producer.page_number),
                       !.enqueued = Append(@, Head(producer.page))]
               ELSE [producer EXCEPT !.page = Tail(producer.page),
                       !.enqueued = Append(@, Head(producer.page))]
          /\ UNCHANGED first_failure
  /\ UNCHANGED <<closed, workers, driver, persisted,
                 handled, persist, dbvars>>

(***************************************************************************)
(* A worker that takes the next stub while its persist call is pending.    *)
(***************************************************************************)
WorkerRecv_while_persisting(w) ==
  /\ Alive /\ workers[w].pc \in {"recv", "persist"}
  /\ IF queue # <<>>
     THEN /\ queue' = Tail(queue)
          /\ workers' = [workers EXCEPT ![w].pc = "product", ![w].stub = Head(queue)]
          /\ handled' = [handled EXCEPT ![Head(queue)].received = @ + 1]
     ELSE /\ closed /\ workers[w].pc = "recv"
          /\ workers' = [workers EXCEPT ![w].pc = "done", ![w].result = Ok]
          /\ UNCHANGED <<queue, handled>>
  /\ UNCHANGED <<closed, producer, driver, persisted, first_failure,
                 persist, dbvars>>

(***************************************************************************)
(* A worker that returns Ok as soon as it finds the channel empty.         *)
(***************************************************************************)
WorkerRecv_exits_on_empty(w) ==
  /\ Alive /\ workers[w].pc = "recv"
  /\ IF queue # <<>>
     THEN /\ queue' = Tail(queue)
          /\ workers' = [workers EXCEPT ![w].pc = "product", ![w].stub = Head(queue)]
          /\ handled' = [handled EXCEPT ![Head(queue)].received = @ + 1]
     ELSE /\ workers' = [workers EXCEPT ![w].pc = "done", ![w].result = Ok]
          /\ UNCHANGED <<queue, handled>>
  /\ UNCHANGED <<closed, producer, driver, persisted, first_failure,
                 persist, dbvars>>

(***************************************************************************)
(* receive.recv().await: the oldest stub when there is one, an error (the  *)
(* task then returns Ok) when the channel is closed and empty, and a wait  *)
(* otherwise.                                                              *)
(***************************************************************************)
WorkerRecv(w) ==
  /\ Alive /\ workers[w].pc = "recv"
  /\ IF queue # <<>>
     THEN /\ queue' = Tail(queue)
          /\ workers' = [workers EXCEPT ![w].pc = "product", ![w].stub = Head(queue)]
          /\ handled' = [handled EXCEPT ![Head(queue)].received = @ + 1]
     ELSE /\ closed
          /\ workers' = [workers EXCEPT ![w].pc = "done", ![w].result = Ok]
          /\ UNCHANGED <<queue, handled>>
  /\ UNCHANGED <<closed, producer, driver, persisted, first_failure,
                 persist, dbvars>>

(***************************************************************************)
(* A failed worker that returns its error without closing the channel.     *)
(***************************************************************************)
WorkerFail_no_close(w, e) ==
  /\ workers' = [workers EXCEPT ![w].pc = "done", ![w].result = e]
  /\ first_failure' = NoteFailure(e)
  /\ UNCHANGED closed

(***************************************************************************)
(* receive.close(); return Err(err)                                        *)
(***************************************************************************)
WorkerFail(w, e) ==
  /\ closed' = TRUE
  /\ workers' = [workers EXCEPT ![w].pc = "done", ![w].result = e]
  /\ first_failure' = NoteFailure(e)

(***************************************************************************)
(* client.product(&product).await                                          *)
(***************************************************************************)
WorkerProduct(w) ==
  /\ Alive /\ workers[w].pc = "product"
  /\ \E fails \in BOOLEAN :
       IF fails
       THEN /\ WorkerFail(w, Err("product", w))
            /\ UNCHANGED handled
       ELSE /\ workers' = [workers EXCEPT ![w].pc = "persist"]
            /\ handled' = [handled EXCEPT ![workers[w].stub].fetched = @ + 1]
            /\ UNCHANGED <<closed, first_failure>>
  /\ UNCHANGED <<queue, producer, driver, persisted, persist, dbvars>>

(***************************************************************************)
(* persist_product(&db, extracted).await, here with the store reduced to   *)
(* the count of completed persists per stub.                               *)
(***************************************************************************)
WorkerPersist(w) ==
  /\ Alive /\ workers[w].pc = "persist"
  /\ \E fails \in BOOLEAN :
       IF fails
       THEN /\ WorkerFail(w, Err("persist", w))
            /\ UNCHANGED persisted
       ELSE /\ workers' = [workers EXCEPT ![w].pc = "recv", ![w].stub = 0]
            /\ persisted' = [persisted EXCEPT ![workers[w].stub] = @ + 1]
            /\ UNCHANGED <<closed, first_failure>>
  /\ UNCHANGED <<queue, producer, driver,
                 handled, persist, dbvars>>

(***************************************************************************)
(* A driver that goes on to the workers whatever the producer returned.    *)
(***************************************************************************)
DriverAwaitPage_always_joins ==
  /\ driver.pc = "await_page"
  /\ producer.pc = "done"
  /\ driver' = [driver EXCEPT !.pc = "join_all"]
  /\ UNCHANGED <<queue, closed, producer, workers, persisted, first_failure,
                 handled, persist, dbvars>>

(***************************************************************************)
(* page_task.await??                                                       *)
(***************************************************************************)
DriverAwaitPage ==
  /\ driver.pc = "await_page"
  /\ producer.pc = "done"
  /\ driver' = IF IsErr(producer.result)
               THEN [pc |-> "done", result |-> producer.result]
               ELSE [driver EXCEPT !.pc = "join_all"]
  /\ UNCHANGED <<queue, closed, producer, workers, persisted, first_failure,
                 handled, persist, dbvars>>

(***************************************************************************)
(* The result of the loop over join_all(product_tasks): the error of the   *)
(* first failed task in spawn order, Ok when there is none.                *)
(***************************************************************************)
Failed == {w \in Workers : IsErr(workers[w].result)}

JoinResult_last_error ==
  IF Failed = {} THEN Ok
  ELSE workers[CHOOSE w \in Failed : \A v \in Failed : v <= w].result

JoinResult_ignores_errors == Ok

JoinResult ==
  IF Failed = {} THEN Ok
  ELSE workers[CHOOSE w \in Failed : \A v \in Failed : w <= v].result

DriverJoinAll ==
  /\ driver.pc = "join_all"
  /\ \A w \in Workers : workers[w].pc = "done"
  /\ driver' = [pc |-> "done", result |-> JoinResult]
  /\ UNCHANGED <<queue, closed, producer, workers, persisted, first_failure,
                 handled, persist, dbvars>>

(***************************************************************************)
(* main returns what crawl returned and the runtime is shut down: tasks    *)
(* that are still running are dropped.                                     *)
(***************************************************************************)
ProcessExit ==
  /\ driver.pc = "done"
  /\ driver' = [driver EXCEPT !.pc = "exited"]
  /\ UNCHANGED <<queue, closed, producer, workers, persisted, first_failure,
                 handled, persist, dbvars>>

(***************************************************************************)
(* persist_product.                                                        *)
(*                                                                         *)
(* An ExtractedProduct: the detailed info (saq_code, the eight optional    *)
(* dimension names, special features, grape varieties), the JSON-LD        *)
(* product if the page has one, and the breadcrumb list if it has one.     *)
(***************************************************************************)
Persisters == 1..NumPersisters

PersistDims ==
  <<"producers", "promoting_agents", "colors", "regions", "countries",
    "regulated_designations", "designations_of_origin", "classifications">>

ProductsPrefix == "https://www.saq.com/en/products/"

Crumb(name, id) == [item |-> [id |-> id, name |-> name]]

ProductFull ==
  [saq_code |-> 1,
   detailed |-> [t \in Range(PersistDims) |-> Some(1)],
   special_features |-> Some(<<2, 1>>),
   grape_varieties |-> Some(<<[name |-> 1, percentage |-> Some(95)]>>),
   ld_product |-> Some(FieldsB),
   breadcrumbs |-> Some(<<Crumb(0, <<"https://www.saq.com/en/">>),
                          Crumb(2, <<ProductsPrefix, 2>>),
                          Crumb(1, <<ProductsPrefix, 1>>),
                          Crumb(0, <<"https://www.saq.com/en/", 1>>)>>)]

ProductBare ==
  [saq_code |-> 2,
   detailed |-> [t \in Range(PersistDims) |->
                   IF t = "countries" THEN Some(1) ELSE None],
   special_features |-> None,
   grape_varieties |-> None,
   ld_product |-> Some(FieldsNull),
   breadcrumbs |-> Some(<<Crumb(1, <<ProductsPrefix, 1>>)>>)]

ProductNoLd ==
  [ProductBare EXCEPT !.ld_product = None]

ProductNoCrumbs ==
  [ProductBare EXCEPT !.breadcrumbs = None,
                      !.special_features = Some(<<1>>),
                      !.detailed = [t \in Range(PersistDims) |->
                                      IF t = "producers" THEN Some(2) ELSE None]]

ProductPlain ==
  [ProductBare EXCEPT
     !.breadcrumbs = Some(<<Crumb(0, <<"https://www.saq.com/en/">>)>>)]

ExtractedProducts ==
  {ProductFull, ProductBare, ProductNoLd, ProductNoCrumbs, ProductPlain}

(***************************************************************************)
(* iter().flatten() over an Option<Vec<T>>: the items, none when absent.   *)
(***************************************************************************)
Flatten(opt) == IF opt = None THEN <<>> ELSE CHOOSE v \in opt : TRUE

Last(seq) == IF seq = <<>> THEN None ELSE Some(seq[Len(seq)])

(***************************************************************************)
(* starts_with("https://www.saq.com/en/products/") on an item id, an id    *)
(* being the text before its last path segment and that segment.           *)
(***************************************************************************)
StartsWithProducts(id) == id[1] = ProductsPrefix

RECURSIVE FilterCategories(_)
FilterCategories(items) ==
  IF items = <<>> THEN <<>>
  ELSE LET li == Head(items)
       IN IF StartsWithProducts(li.item.id)
          THEN <<[name |-> li.item.name, url |-> li.item.id]>>
                 \o FilterCategories(Tail(items))
          ELSE FilterCategories(Tail(items))

(***************************************************************************)
(* extract_categories: an error without a breadcrumb list, otherwise the   *)
(* items of the list that are product categories, in the list's order.     *)
(***************************************************************************)
extract_categories(product) ==
  IF product.breadcrumbs = None
  THEN [err |-> TRUE, categories |-> <<>>]
  ELSE [err |-> FALSE,
        categories |-> FilterCategories(Flatten(product.breadcrumbs))]

(***************************************************************************)
(* Fields in which the ids of the region and of the country have changed   *)
(* places.                                                                 *)
(***************************************************************************)
NewProduct_swaps_region_and_country(product, ids) ==
  [Flatten(product.ld_product) EXCEPT
     !.producer_id = ids["producers"],
     !.promoting_agent_id = ids["promoting_agents"],
     !.color_id = ids["colors"],
     !.region_id = ids["countries"],
     !.country_id = ids["regions"],
     !.regulated_designation_id = ids["regulated_designations"],
     !.designation_of_origin_id = ids["designations_of_origin"],
     !.classification_id = ids["classifications"]]

(***************************************************************************)
(* The ProductUpsertFields persist_product builds from the extracted       *)
(* product and the dimension ids it has resolved.                          *)
(***************************************************************************)
NewProduct(product, ids) ==
  [Flatten(product.ld_product) EXCEPT
     !.producer_id = ids["producers"],
     !.promoting_agent_id = ids["promoting_agents"],
     !.color_id = ids["colors"],
     !.region_id = ids["regions"],
     !.country_id = ids["countries"],
     !.regulated_designation_id = ids["regulated_designations"],
     !.designation_of_origin_id = ids["designations_of_origin"],
     !.classification_id = ids["classifications"]]

(***************************************************************************)
(* The steps of persist_product in the order of its body.                  *)
(***************************************************************************)
PersistOrder ==
  PersistDims \o
  <<"get_ld_product", "upsert_product",
    "upsert_special_feature", "ensure_product_special_features",
    "upsert_grape_variety", "ensure_product_grape_varieties",
    "extract_categories", "upsert_category", "ensure_product_categories",
    "return">>

StepIndex(step) == CHOOSE i \in 1..Len(PersistOrder) : PersistOrder[i] = step

NextStep(step) == PersistOrder[StepIndex(step) + 1]

(***************************************************************************)
(* The records of the store calls persist_product makes.                   *)
(***************************************************************************)
UpsertCall(w, t, n) ==
  [op |-> "upsert", pc |-> "insert", table |-> t, name |-> n,
   kind |-> "none", product_id |-> 0,
   raced |-> /\ NameConflict(dims[t], n) = {}
             /\ \E v \in DbWorkers \ {w} :
                  /\ call[v].op = "upsert" /\ call[v].pc = "insert"
                  /\ call[v].table = t /\ call[v].name = n]

ProductCall(code, f) ==
  [op |-> "upsert_product", pc |-> "statement", saq_code |-> code,
   fields |-> f, kind |-> "none", product_id |-> 0]

EnsureCall(kind, p, list) ==
  [op |-> "ensure", kind |-> kind, product_id |-> p, list |-> list,
   i |-> 1, work |-> {}, pc |-> IF list = <<>> THEN "delete" ELSE "upsert"]

CategoryCall(n, u, parent_id) ==
  [op |-> "upsert_category", pc |-> "statement", name |-> n, url |-> u,
   parent_id |-> parent_id, kind |-> "none", product_id |-> 0]

(***************************************************************************)
(* A caller begins persist_product with an extracted product; callers are  *)
(* interchangeable and begin in index order.                               *)
(***************************************************************************)
RECURSIVE PersistsBegun(_)
PersistsBegun(k) == IF k = 0 THEN 0 ELSE persist[k].n + PersistsBegun(k - 1)

PersistBegin(w) ==
  /\ \/ persist[w].at = "idle"
     \/ persist[w].at = "done" /\ persist[w].result = Ok
  /\ PersistsBegun(NumPersisters) < MaxPersists
  /\ \A v \in Persisters : v < w => persist[v].n > 0
  /\ \E product \in ExtractedProducts :
       persist' = [persist EXCEPT ![w] =
                     [pc |-> PersistOrder[1], at |-> "enter",
                      n |-> persist[w].n + 1, product |-> product,
                      ids |-> [t \in Range(PersistDims) |-> None],
                      product_id |-> 0, list |-> <<>>, categories |-> <<>>,
                      log |-> <<>>, result |-> Running]]
  /\ UNCHANGED <<dbvars, queue, closed, producer, workers, driver, persisted,
                 first_failure, handled>>

Logged(f, arg, ret) == Append(f.log, [step |-> f.pc, arg |-> arg, ret |-> ret])

(***************************************************************************)
(* The step persist_product is at, up to its await: a store call is begun  *)
(* (the connection acquired), or a step without a store call is done.      *)
(***************************************************************************)
PersistEnter(w) ==
  /\ persist[w].at = "enter"
  /\ LET f == persist[w]
         Calls(c) == /\ call' = [call EXCEPT ![w] = c]
                     /\ Acquire(w)
                     /\ persist' = [persist EXCEPT ![w].at = "await"]
         Goes(g) == /\ persist' = [persist EXCEPT ![w] = g]
                    /\ UNCHANGED <<call, conns>>
         Fails == Goes([f EXCEPT !.at = "done", !.result = Err(f.pc, w)])
     IN CASE f.pc \in Range(PersistDims) ->
               IF f.product.detailed[f.pc] = None
               THEN Goes([f EXCEPT !.pc = NextStep(f.pc)])
               ELSE Calls(UpsertCall(w, f.pc, Flatten(f.product.detailed[f.pc])))
          [] f.pc = "get_ld_product" ->
               IF f.product.ld_product = None
               THEN Fails
               ELSE Goes([f EXCEPT !.pc = NextStep(f.pc),
                                   !.log = Logged(f, <<>>, 0)])
          [] f.pc = "upsert_product" ->
               Calls(ProductCall(f.product.saq_code, NewProduct(f.product, f.ids)))
          [] f.pc = "upsert_special_feature" ->
               LET items == Flatten(f.product.special_features)
               IN IF Len(f.list) = Len(items)
                  THEN Goes([f EXCEPT !.pc = NextStep(f.pc)])
                  ELSE Calls(UpsertCall(w, "special_features",
                                        items[Len(f.list) + 1]))
          [] f.pc = "upsert_grape_variety" ->
               LET items == Flatten(f.product.grape_varieties)
               IN IF Len(f.list) = Len(items)
                  THEN Goes([f EXCEPT !.pc = NextStep(f.pc)])
                  ELSE Calls(UpsertCall(w, "grape_varieties",
                                        items[Len(f.list) + 1].name))
          [] f.pc = "ensure_product_special_features" ->
               Calls(EnsureCall("special_features", f.product_id, f.list))
          [] f.pc = "ensure_product_grape_varieties" ->
               Calls(EnsureCall("grape_varieties", f.product_id, f.list))
          [] f.pc = "extract_categories" ->
               LET extracted == extract_categories(f.product)
               IN IF extracted.err
                  THEN Fails
                  ELSE Goes([f EXCEPT !.pc = NextStep(f.pc),
                                      !.categories = extracted.categories,
                                      !.log = Logged(f, <<>>, 0)])
          [] f.pc = "upsert_category" ->
               IF Len(f.list) = Len(f.categories)
               THEN Goes([f EXCEPT !.pc = NextStep(f.pc)])
               ELSE LET category == f.categories[Len(f.list) + 1]
                        parent_category_id ==
                          IF f.list = <<>> THEN None
                          ELSE Some(f.list[Len(f.list)].id)
                    IN Calls(CategoryCall(category.name, category.url,
                                          parent_category_id))
          [] f.pc = "ensure_product_categories" ->
               Calls(EnsureCall("categories", f.product_id, f.list))
          [] f.pc = "return" ->
               Goes([f EXCEPT !.at = "done", !.result = Ok])
  /\ UNCHANGED <<now, assoc, wlock, ncalls, last, dims, returned, products,
                 eval, queue, closed, producer, workers, driver, persisted,
                 first_failure, handled>>

(***************************************************************************)
(* A store call that swallows its error: the step counts as done with id 0 *)
(* and persist_product goes on.                                            *)
(***************************************************************************)
AwaitedError_swallowed(f, w) ==
  [f EXCEPT !.pc = NextStep(f.pc), !.list = <<>>]

(***************************************************************************)
(* The ? after an awaited store call that failed: persist_product returns  *)
(* the error.                                                              *)
(***************************************************************************)
AwaitedError(f, w) ==
  [f EXCEPT !.at = "done", !.result = Err(f.pc, w)]

(***************************************************************************)
(* A category pushed in front of the ids collected so far.                 *)
(***************************************************************************)
PushCategory_front(list, id) == <<[id |-> id, percentage |-> None]>> \o list

(***************************************************************************)
(* category_ids.push(category_id)                                          *)
(***************************************************************************)
PushCategory(list, id) == Append(list, [id |-> id, percentage |-> None])

(***************************************************************************)
(* The awaited store call has returned: its error is returned, or its      *)
(* result is kept and persist_product moves on.                            *)
(***************************************************************************)
PersistAwait(w) ==
  /\ persist[w].at = "await"
  /\ call[w].pc \in {"ok", "err"}
  /\ LET f == persist[w]
         c == call[w]
         g == [f EXCEPT !.at = "enter"]
     IN persist' = [persist EXCEPT ![w] =
          IF c.pc = "err" THEN AwaitedError(f, w)
          ELSE CASE f.pc \in Range(PersistDims) ->
                      [g EXCEPT !.ids[f.pc] = Some(c.id),
                                !.pc = NextStep(f.pc),
                                !.log = Logged(f, c.name, c.id)]
                 [] f.pc = "upsert_product" ->
                      [g EXCEPT !.product_id = c.product_id,
                                !.pc = NextStep(f.pc),
                                !.log = Logged(f, c.saq_code, c.product_id)]
                 [] f.pc = "upsert_special_feature" ->
                      [g EXCEPT !.list = Append(f.list,
                                  [id |-> c.id, percentage |-> None]),
                                !.log = Logged(f, c.name, c.id)]
                 [] f.pc = "upsert_grape_variety" ->
                      [g EXCEPT !.list = Append(f.list,
                                  [id |-> c.id,
                                   percentage |->
                                     Flatten(f.product.grape_varieties)
                                       [Len(f.list) + 1].percentage]),
                                !.log = Logged(f, c.name, c.id)]
                 [] f.pc = "upsert_category" ->
                      [g EXCEPT !.list = PushCategory(f.list, c.id),
                                !.log = Logged(f, <<c.name, c.url, c.parent_id>>,
                                               c.id)]
                 [] OTHER ->
                      [g EXCEPT !.list = <<>>,
                                !.pc = NextStep(f.pc),
                                !.log = Logged(f, <<c.product_id, IdsOf(f.list)>>, 0)]]
  /\ call' = [call EXCEPT ![w] = Idle]
  /\ UNCHANGED <<conns, now, assoc, wlock, ncalls, last, dims, returned, products,
                 eval, queue, closed, producer, workers, driver, persisted,
                 first_failure, handled>>

(***************************************************************************)
(* The store after the migrations: every table is empty.                   *)
(***************************************************************************)
InitStore ==
  /\ now = 0
  /\ assoc = [kind \in Kinds |-> {}]
  /\ wlock = 0
  /\ call = [w \in DbWorkers |-> Idle]
  /\ conns = [w \in DbWorkers |-> 0]
  /\ ncalls = 0
  /\ last = [kind \in Kinds |-> [p \in ProductIds |-> NoLast]]
  /\ dims = [t \in NamedTables |-> {}]
  /\ returned = [t \in Tables |-> [n \in Names |-> {}]]
  /\ products = {}

Init == InitStore /\ InitCrawl

Next ==
  \/ ProducerRequest
  \/ ProducerPage
  \/ ProducerSend
  \/ \E w \in Workers : WorkerRecv(w)
  \/ \E w \in Workers : WorkerProduct(w)
  \/ \E w \in Workers : WorkerPersist(w)
  \/ DriverAwaitPage
  \/ DriverJoinAll
  \/ ProcessExit

Spec == Init /\ [][Next]_vars

(***************************************************************************)
(* The tasks under tokio's scheduler: while some task can take its next    *)
(* step, one of them is polled, and every awaited page fetch, product      *)
(* fetch, persist call, send and receive that can complete does complete.  *)
(***************************************************************************)
Fairness == WF_vars(Next)

SpecFair == Spec /\ Fairness

(***************************************************************************)
(* The enumerations written to the products table and their serialized     *)
(* forms.                                                                  *)
(***************************************************************************)
ItemAvailability ==
  {"BackOrder", "Discontinued", "InStock", "InStoreOnly",
   "LimitedAvailability", "OnlineOnly", "OutOfStock", "PreOrder", "PreSale",
   "SoldOut"}

OfferItemCondition == {"Damaged", "New", "Refurbished", "Used"}

ProductOfQuebec == {"BottledIn", "MadeIn", "Origine"}

SugarContentEquality == {"GreaterThan", "LessThan", "Equal"}

Variants(enum) ==
  CASE enum = "ItemAvailability" -> ItemAvailability
    [] enum = "OfferItemCondition" -> OfferItemCondition
    [] enum = "ProductOfQuebec" -> ProductOfQuebec
    [] enum = "SugarContentEquality" -> SugarContentEquality

(***************************************************************************)
(* The strings the CHECK constraints of the products table admit for the   *)
(* columns availability, item_condition, product_of_quebec and             *)
(* sugar_content_equality.                                                 *)
(***************************************************************************)
Permitted(enum) ==
  CASE enum = "ItemAvailability" ->
         {"back_order", "discontinued", "in_stock", "in_store_only",
          "limited_availability", "online_only", "out_of_stock", "pre_order",
          "pre_sale", "sold_out"}
    [] enum = "OfferItemCondition" -> {"damaged", "new", "refurbished", "used"}
    [] enum = "ProductOfQuebec" ->
         {"bottled_in_quebec", "made_in_quebec", "origine_quebec"}
    [] enum = "SugarContentEquality" -> {">", "<", "="}

(***************************************************************************)
(* A mapping in which two arms of ItemAvailability carry the same string.  *)
(***************************************************************************)
db_serialize_pre_sale_as_pre_order(enum, variant) ==
  CASE enum = "ItemAvailability" ->
         (CASE variant = "BackOrder" -> "back_order"
            [] variant = "Discontinued" -> "discontinued"
            [] variant = "InStock" -> "in_stock"
            [] variant = "InStoreOnly" -> "in_store_only"
            [] variant = "LimitedAvailability" -> "limited_availability"
            [] variant = "OnlineOnly" -> "online_only"
            [] variant = "OutOfStock" -> "out_of_stock"
            [] variant = "PreOrder" -> "pre_order"
            [] variant = "PreSale" -> "pre_order"
            [] variant = "SoldOut" -> "sold_out")
    [] enum = "OfferItemCondition" ->
         (CASE variant = "Damaged" -> "damaged"
            [] variant = "New" -> "new"
            [] variant = "Refurbished" -> "refurbished"
            [] variant = "Used" -> "used")
    [] enum = "ProductOfQuebec" ->
         (CASE variant = "BottledIn" -> "bottled_in_quebec"
            [] variant = "MadeIn" -> "made_in_quebec"
            [] variant = "Origine" -> "origine_quebec")
    [] enum = "SugarContentEquality" ->
         (CASE variant = "GreaterThan" -> ">"
            [] variant = "LessThan" -> "<"
            [] variant = "Equal" -> "=")

(***************************************************************************)
(* DbSerialize::db_serialize, one implementation per enumeration.          *)
(***************************************************************************)
db_serialize(enum, variant) ==
  CASE enum = "ItemAvailability" ->
         (CASE variant = "BackOrder" -> "back_order"
            [] variant = "Discontinued" -> "discontinued"
            [] variant = "InStock" -> "in_stock"
            [] variant = "InStoreOnly" -> "in_store_only"
            [] variant = "LimitedAvailability" -> "limited_availability"
            [] variant = "OnlineOnly" -> "online_only"
            [] variant = "OutOfStock" -> "out_of_stock"
            [] variant = "PreOrder" -> "pre_order"
            [] variant = "PreSale" -> "pre_sale"
            [] variant = "SoldOut" -> "sold_out")
    [] enum = "OfferItemCondition" ->
         (CASE variant = "Damaged" -> "damaged"
            [] variant = "New" -> "new"
            [] variant = "Refurbished" -> "refurbished"
            [] variant = "Used" -> "used")
    [] enum = "ProductOfQuebec" ->
         (CASE variant = "BottledIn" -> "bottled_in_quebec"
            [] variant = "MadeIn" -> "made_in_quebec"
            [] variant = "Origine" -> "origine_quebec")
    [] enum = "SugarContentEquality" ->
         (CASE variant = "GreaterThan" -> ">"
            [] variant = "LessThan" -> "<"
            [] variant = "Equal" -> "=")

(***************************************************************************)
(* Option::map                                                             *)
(***************************************************************************)
MapOption(enum, opt) ==
  IF opt = None THEN None ELSE Some(db_serialize(enum, Unwrap(opt)))

Options(S) == {None} \cup {Some(v) : v \in S}

(***************************************************************************)
(* The enumerated values of one extracted product: the availability and    *)
(* the condition of its offer, its Product of Quebec label and the         *)
(* qualifier of its sugar content when it has them.                        *)
(***************************************************************************)
EnumeratedFields ==
  [availability : ItemAvailability, item_condition : OfferItemCondition,
   product_of_quebec : Options(ProductOfQuebec),
   sugar_content_equality : Options(SugarContentEquality)]

(***************************************************************************)
(* The four enumerated fields of ProductUpsertFields as persist_product    *)
(* fills them.                                                             *)
(***************************************************************************)
SerializeFields ==
  /\ eval.fn = "db_serialize" /\ eval.ret = None
  /\ eval' = [eval EXCEPT !.ret = Some(
       [availability |-> db_serialize("ItemAvailability", eval.arg.availability),
        item_condition |->
          db_serialize("OfferItemCondition", eval.arg.item_condition),
        product_of_quebec |->
          MapOption("ProductOfQuebec", eval.arg.product_of_quebec),
        sugar_content_equality |->
          MapOption("SugarContentEquality", eval.arg.sugar_content_equality)])]
  /\ UNCHANGED <<now, assoc, wlock, call, conns, ncalls, last, dims, returned,
                 products, crawlvars>>

InitSerialize ==
  /\ InitStore /\ InitPipeline
  /\ eval \in [fn : {"db_serialize"}, arg : EnumeratedFields, ret : {None}]

NextSerialize == SerializeFields

SpecSerialize == InitSerialize /\ [][NextSerialize]_vars

(***************************************************************************)
(* Texts are sequences of one-character strings.  DigitRun is the length   *)
(* of the longest run of decimal digits of s that starts at position i,    *)
(* which is what a greedy \d+ consumes there.                              *)
(***************************************************************************)
RECURSIVE DigitRun(_, _)
DigitRun(s, i) ==
  IF i <= Len(s) /\ IsDigit(s[i]) THEN 1 + DigitRun(s, i + 1) ELSE 0

From(s, i) == SubSeq(s, i, Len(s))
Mid(s, i, j) == IF j > Len(s) THEN From(s, i) ELSE SubSeq(s, i, j)

SizeUnits == {<<"m", "L">>, <<"m", "l">>, <<"L">>}

(***************************************************************************)
(* The tail "(\d+(\.\d+)?) (mL|ml|L)\z" of SIZE_RE matched at the start of *)
(* s: digits, optionally a point and digits, one space, a unit, the end.   *)
(* No shorter run of digits can match, since the character after the       *)
(* number has to be the space.                                             *)
(***************************************************************************)
MatchValueUnit(s) ==
  LET whole == DigitRun(s, 1)
      frac == IF whole + 1 <= Len(s) /\ s[whole + 1] = "."
              THEN DigitRun(s, whole + 2) ELSE 0
      numlen == IF frac > 0 THEN whole + 1 + frac ELSE whole
  IN IF /\ whole > 0
        /\ numlen + 1 <= Len(s) /\ s[numlen + 1] = " "
        /\ From(s, numlen + 2) \in SizeUnits
     THEN Some([whole |-> SubSeq(s, 1, whole),
                frac |-> SubSeq(s, whole + 2, whole + 1 + frac),
                unit |-> From(s, numlen + 2)])
     ELSE None

(***************************************************************************)
(* SIZE_RE.captures(text): the optional group "((\d+) x )?" is tried       *)
(* first, and the match falls back to the text without it.                 *)
(***************************************************************************)
SIZE_RE(text) ==
  LET digits == DigitRun(text, 1)
      with_count ==
        IF digits > 0 /\ Mid(text, digits + 1, digits + 3) = <<" ", "x", " ">>
        THEN MatchValueUnit(From(text, digits + 4)) ELSE None
  IN IF with_count # None
     THEN Some([count |-> Some(SubSeq(text, 1, digits)),
                value |-> Unwrap(with_count)])
     ELSE IF MatchValueUnit(text) # None
     THEN Some([count |-> None, value |-> Unwrap(MatchValueUnit(text))])
     ELSE None

(***************************************************************************)
(* u8::from_str on a run of digits: the value when it is at most 255.      *)
(***************************************************************************)
RECURSIVE StripZeros(_)
StripZeros(s) ==
  IF Len(s) > 1 /\ s[1] = "0" THEN StripZeros(Tail(s)) ELSE s

u8_from_str(s) ==
  IF Len(StripZeros(s)) <= 3 /\ TextToInteger(StripZeros(s)) <= 255
  THEN Some(TextToInteger(StripZeros(s))) ELSE None

(***************************************************************************)
(* An f32 is kept as its 24-bit significand m and its exponent e, the      *)
(* value being m * 2^(e - 23) with 2^23 <= m < 2^24, or m = 0 for zero.    *)
(* Every operation rounds to nearest, ties to even, as IEEE 754 does.  The *)
(* operators cover the decimals below 2^24 with at most two fraction       *)
(* digits, which keeps every intermediate product within 31 bits.          *)
(***************************************************************************)
RoundHalfEven(a, b) ==
  LET q == a \div b
      r == a % b
  IN IF 2 * r < b THEN q
     ELSE IF 2 * r > b THEN q + 1
     ELSE IF q % 2 = 0 THEN q ELSE q + 1

Normal(m, e) ==
  IF m = 2^24 THEN [m |-> 2^23, e |-> e + 1] ELSE [m |-> m, e |-> e]

(* the e with 2^e <= n / 10^k < 2^(e+1), for n > 0 *)
Exponent(n, k) ==
  CHOOSE e \in -7..23 :
    IF e >= 0 THEN 2^e * 10^k <= n /\ (e < 23 => n < 2^(e + 1) * 10^k)
    ELSE n < 10^k /\ 10^k <= n * 2^(-e) /\ n * 2^(-e - 1) < 10^k

(* f32::from_str of the decimal n / 10^k *)
f32_from_decimal(n, k) ==
  IF n = 0 THEN [m |-> 0, e |-> 0]
  ELSE LET e == Exponent(n, k)
       IN Normal(RoundHalfEven(n * 2^(23 - e), 10^k), e)

f32_from_str(whole, frac) ==
  f32_from_decimal(TextToInteger(whole \o frac), Len(frac))

(* num * 1000.0: m * 1000 is m * 125 * 8, rounded back to 24 bits *)
f32_times_1000(f) ==
  IF f.m = 0 THEN f
  ELSE LET mm == f.m * 125
           d == IF mm < 2^30 THEN 9 ELSE 10
       IN Normal(RoundHalfEven(mm, 2^(d - 3)), f.e + d)

(* num.ceil() as u32 *)
f32_ceil(f) ==
  LET s == f.e - 23
  IN IF f.m = 0 THEN 0
     ELSE IF s >= 0 THEN f.m * 2^s
     ELSE IF s <= -24 THEN 1
     ELSE (f.m + 2^(-s) - 1) \div 2^(-s)

SizeOk(count, ml) ==
  <<"ok", [container_count |-> count, container_milliliters |-> ml]>>
SizeErr(what) == <<"err", what>>

parse_size(text) ==
  LET captures == SIZE_RE(text)
  IN IF captures = None THEN SizeErr("failed to match")
     ELSE LET c == Unwrap(captures)
              container_count ==
                IF c.count = None THEN Some(1) ELSE u8_from_str(Unwrap(c.count))
              num == f32_from_str(c.value.whole, c.value.frac)
              container_milliliters ==
                IF c.value.unit = <<"L">> THEN f32_ceil(f32_times_1000(num))
                ELSE f32_ceil(num)
          IN IF container_count = None THEN SizeErr("failed to parse as u8")
             ELSE SizeOk(Unwrap(container_count), container_milliliters)

(***************************************************************************)
(* The size texts of product pages: an optional count, a decimal with up   *)
(* to two fraction digits, the space that may be missing, and a unit.      *)
(***************************************************************************)
RECURSIVE Pad(_, _)
Pad(s, k) == IF Len(s) >= k THEN s ELSE Pad(<<"0">> \o s, k)

DecimalText(n, k) ==
  IF k = 0 THEN to_string(n)
  ELSE to_string(n \div 10^k) \o <<".">> \o Pad(to_string(n % 10^k), k)

SizeCounts ==
  {<<>>, <<"6", " ", "x", " ">>, <<"2", "5", "5", " ", "x", " ">>,
   <<"2", "5", "6", " ", "x", " ">>, <<"6", "x", " ">>}
SizeSeparators == {<<>>, <<" ">>}
SizeUnitTexts == SizeUnits \cup {<<"l">>}

SizeInputs ==
  [count : SizeCounts, n : 0..MaxSizeNumber, k : 0..2,
   separator : SizeSeparators, unit : SizeUnitTexts]

SizeText(a) == a.count \o DecimalText(a.n, a.k) \o a.separator \o a.unit

ParseSize ==
  /\ eval.fn = "parse_size" /\ eval.ret = None
  /\ eval' = [eval EXCEPT !.ret = Some(parse_size(SizeText(eval.arg)))]
  /\ UNCHANGED <<now, assoc, wlock, call, conns, ncalls, last, dims, returned,
                 products, crawlvars>>

InitSize ==
  /\ InitStore /\ InitPipeline
  /\ eval \in [fn : {"parse_size"}, arg : SizeInputs, ret : {None}]

NextSize == ParseSize

SpecSize == InitSize /\ [][NextSize]_vars

(***************************************************************************)
(* Rust's char::is_whitespace and the regex class \s both hold of the      *)
(* space and of the no-break space U+00A0, which the product pages use     *)
(* between a name and its percentage; NBSP stands for that one character.  *)
(***************************************************************************)
NBSP == "nbsp"
IsWhitespace(c) == c \in {" ", NBSP}

RECURSIVE TrimStart(_)
TrimStart(s) ==
  IF s # <<>> /\ IsWhitespace(s[1]) THEN TrimStart(Tail(s)) ELSE s

RECURSIVE TrimEnd(_)
TrimEnd(s) ==
  IF s # <<>> /\ IsWhitespace(s[Len(s)])
  THEN TrimEnd(SubSeq(s, 1, Len(s) - 1)) ELSE s

Trim(s) == TrimEnd(TrimStart(s))

(* text.split(','): the pieces between the commas, at least one *)
RECURSIVE Split(_)
Split(text) ==
  IF \E i \in 1..Len(text) : text[i] = ","
  THEN LET i == CHOOSE j \in 1..Len(text) :
                  text[j] = "," /\ \A h \in 1..(j - 1) : text[h] # ","
       IN <<SubSeq(text, 1, i - 1)>> \o Split(From(text, i + 1))
  ELSE <<text>>

(* the length of the run of digits of s that ends at position i *)
RECURSIVE DigitRunBack(_, _)
DigitRunBack(s, i) ==
  IF i >= 1 /\ IsDigit(s[i]) THEN 1 + DigitRunBack(s, i - 1) ELSE 0

(***************************************************************************)
(* GRAPE_VARIETY_PERCENT_RE.captures(part), "(\s(\d+)\s%)\z": the part      *)
(* ends with a whitespace, digits, a whitespace and the percent sign.      *)
(* offset is the number of characters before the first whitespace.         *)
(***************************************************************************)
GRAPE_VARIETY_PERCENT_RE(part) ==
  LET n == Len(part)
      run == DigitRunBack(part, n - 2)
  IN IF /\ n >= 4 /\ part[n] = "%" /\ IsWhitespace(part[n - 1])
        /\ run >= 1 /\ n - 2 - run >= 1
        /\ IsWhitespace(part[n - 2 - run])
     THEN Some([offset |-> n - 3 - run,
                digits |-> SubSeq(part, n - 1 - run, n - 2)])
     ELSE None

GrapesOk(varieties) == <<"ok", varieties>>
GrapesErr(what) == <<"err", what>>

(* one turn of the loop: the entry of a part, or the error it returns *)
GrapeEntry(piece) ==
  LET part == Trim(piece)
      percentage_match == GRAPE_VARIETY_PERCENT_RE(part)
      matched == percentage_match # None
      percentage ==
        IF matched THEN u8_from_str(Unwrap(percentage_match).digits) ELSE None
      name ==
        IF matched THEN Trim(SubSeq(part, 1, Unwrap(percentage_match).offset))
        ELSE part
  IN IF matched /\ percentage = None
     THEN GrapesErr("failed to parse percentage")
     ELSE IF name = <<>> THEN GrapesErr("could not detect name")
     ELSE GrapesOk([name |-> name, percentage |-> percentage])

RECURSIVE GrapeLoop(_, _)
GrapeLoop(pieces, varieties) ==
  IF pieces = <<>> THEN GrapesOk(varieties)
  ELSE LET entry == GrapeEntry(pieces[1])
       IN IF entry[1] = "err" THEN entry
          ELSE GrapeLoop(Tail(pieces), Append(varieties, entry[2]))

parse_grape_varieties(text) == GrapeLoop(Split(text), <<>>)

(***************************************************************************)
(* The parts of the "Grape variety" texts: those of the tests, and parts   *)
(* that lack a name, a percentage or one of the separators.                *)
(***************************************************************************)
Zinfandel ==
  <<"Z", "i", "n", "f", "a", "n", "d", "e", "l", " ", "9", "5", " ", "%">>
OtherVarieties ==
  <<" ", "O", "t", "h", "e", "r", " ", "g", "r", "a", "p", "e", " ", "v",
    "a", "r", "i", "e", "t", "y", " ", "(", "i", "e", "s", ")", " ", "5",
    " ", "%">>

GrapeParts ==
  {Zinfandel, OtherVarieties,
   (* a name alone *)
   <<"C", "h", "a", "r", "d", "o", "n", "n", "a", "y">>,
   (* no-break spaces, as on the pages *)
   <<"N", "e", "r", "o", " ", "d", "'", "A", "v", "o", "l", "a", NBSP,
     "1", "0", "0", NBSP, "%">>,
   (* nothing between two commas *)
   <<>>,
   (* a blank *)
   <<" ">>,
   (* a percentage alone *)
   <<" ", "9", "5", " ", "%">>,
   (* a percentage beyond u8 *)
   <<"M", "e", "r", "l", "o", "t", " ", "3", "0", "0", " ", "%">>,
   (* no whitespace before the percent sign *)
   <<"M", "e", "r", "l", "o", "t", " ", "5", "%">>,
   (* no whitespace before the digits *)
   <<"M", "e", "r", "l", "o", "t", "5", " ", "%">>,
   (* a trailing blank *)
   <<"G", "a", "m", "a", "y", " ", "1", "2", " ", "%", " ">>}

RECURSIVE Join(_)
Join(pieces) ==
  IF Len(pieces) = 1 THEN pieces[1]
  ELSE pieces[1] \o <<",">> \o Join(Tail(pieces))

GrapeInputs ==
  UNION {[1..n -> GrapeParts] : n \in 1..MaxGrapeParts}

ParseGrapeVarieties ==
  /\ eval.fn = "parse_grape_varieties" /\ eval.ret = None
  /\ eval' = [eval EXCEPT !.ret = Some(parse_grape_varieties(Join(eval.arg)))]
  /\ UNCHANGED <<now, assoc, wlock, call, conns, ncalls, last, dims, returned,
                 products, crawlvars>>

InitGrapeText ==
  /\ InitStore /\ InitPipeline
  /\ eval \in [fn : {"parse_grape_varieties"}, arg : GrapeInputs, ret : {None}]

NextGrapeText == ParseGrapeVarieties

SpecGrapeText == InitGrapeText /\ [][NextGrapeText]_vars

(***************************************************************************)
(* persist_product reconciles a product after it has upserted the product  *)
(* and the names of its members: the reconcilers start from a store that   *)
(* holds those rows.                                                       *)
(***************************************************************************)
RECURSIVE SeedProducts(_)
SeedProducts(n) ==
  IF n = 0 THEN {}
  ELSE SeedProducts(n - 1) \cup
         {InsertedProductRow(SeedProducts(n - 1), n, FieldsA, 0)}

RECURSIVE SeedNames(_)
SeedNames(n) ==
  IF n = 0 THEN {}
  ELSE SeedNames(n - 1) \cup {NewDimRow(SeedNames(n - 1), n, 0)}

(***************************************************************************)
(* The categories persist_product has upserted for a breadcrumb chain of n *)
(* names: every category but the first has the one before it as parent.    *)
(***************************************************************************)
RECURSIVE SeedCategories(_)
SeedCategories(n) ==
  IF n = 0 THEN {}
  ELSE SeedCategories(n - 1) \cup
         {NewCategoryRow(SeedCategories(n - 1), n,
                         <<"https://www.saq.com/en/products/", n>>,
                         IF n = 1 THEN None ELSE Some(n - 1), 0)}

InitReconcile ==
  /\ now = 0
  /\ assoc = [kind \in Kinds |-> {}]
  /\ wlock = 0
  /\ call = [w \in DbWorkers |-> Idle]
  /\ conns = [w \in DbWorkers |-> 0]
  /\ ncalls = 0
  /\ last = [kind \in Kinds |-> [p \in ProductIds |-> NoLast]]
  /\ dims = [t \in NamedTables |->
               IF t \in {"special_features", "grape_varieties"}
               THEN SeedNames(MaxKey)
               ELSE IF t = "categories" THEN SeedCategories(MaxKey) ELSE {}]
  /\ returned = [t \in Tables |-> [n \in Names |-> {}]]
  /\ products = SeedProducts(NumProducts)
  /\ InitCrawl

NextReconcile ==
  \/ \E w \in DbWorkers : EnsureBegin(w)
  \/ \E w \in DbWorkers : EnsureUpsert(w)
  \/ \E w \in DbWorkers : EnsureDelete(w)
  \/ \E w \in DbWorkers : EnsureCommit(w)
  \/ Tick

SpecReconcile == InitReconcile /\ [][NextReconcile]_vars

(***************************************************************************)
(* ensure_product_grape_varieties on a store an earlier crawl has written: *)
(* product 1 has a row for every grape variety, with a percentage for the  *)
(* odd ids and without one for the even ids.  The calls reconcile that     *)
(* product, with lists of distinct ids in ascending order, each id with a  *)
(* percentage of its own.                                                  *)
(***************************************************************************)
SeedGrapeRows(n) ==
  {NewAssocRow(1, k, IF k % 2 = 1 THEN Some(95) ELSE None, 0) : k \in 1..n}

GrapeLists ==
  {list \in UNION {[1..m -> Members("grape_varieties")] : m \in 0..MaxKey} :
     \A i \in 1..Len(list), j \in 1..Len(list) :
       i < j => list[i].id < list[j].id}

GrapeBegin(w) ==
  /\ CanBegin(w)
  /\ Acquire(w)
  /\ \E list \in GrapeLists :
         call' = [call EXCEPT ![w] =
                    [op |-> "ensure", kind |-> "grape_varieties",
                     product_id |-> 1, list |-> list, i |-> 1, work |-> {},
                     pc |-> IF list = <<>> THEN "delete" ELSE "upsert"]]
  /\ ncalls' = ncalls + 1
  /\ UNCHANGED <<now, assoc, wlock, last, dims, returned, products, eval,
                 crawlvars>>

InitGrapes ==
  /\ now = 1
  /\ assoc = [kind \in Kinds |->
                IF kind = "grape_varieties" THEN SeedGrapeRows(MaxKey) ELSE {}]
  /\ wlock = 0
  /\ call = [w \in DbWorkers |-> Idle]
  /\ conns = [w \in DbWorkers |-> 0]
  /\ ncalls = 0
  /\ last = [kind \in Kinds |-> [p \in ProductIds |-> NoLast]]
  /\ dims = [t \in NamedTables |->
               IF t = "grape_varieties" THEN SeedNames(MaxKey) ELSE {}]
  /\ returned = [t \in Tables |-> [n \in Names |-> {}]]
  /\ products = SeedProducts(NumProducts)
  /\ InitCrawl

NextGrapes ==
  \/ \E w \in DbWorkers : GrapeBegin(w)
  \/ \E w \in DbWorkers : EnsureUpsert(w)
  \/ \E w \in DbWorkers : EnsureDelete(w)
  \/ \E w \in DbWorkers : EnsureCommit(w)

SpecGrapes == InitGrapes /\ [][NextGrapes]_vars

InitDimensions == InitStore /\ InitCrawl

NextDimensions ==
  \/ \E w \in DbWorkers : UpsertBegin(w)
  \/ \E w \in DbWorkers : UpsertInsert(w)
  \/ \E w \in DbWorkers : UpsertSelect(w)
  \/ Tick

SpecDimensions == InitDimensions /\ [][NextDimensions]_vars

InitCategories == InitStore /\ InitCrawl

NextCategories ==
  \/ \E w \in DbWorkers : CategoryBegin(w)
  \/ \E w \in DbWorkers : CategoryStatement(w)
  \/ \E w \in DbWorkers : CategorySelect(w)
  \/ Tick

SpecCategories == InitCategories /\ [][NextCategories]_vars

(***************************************************************************)
(* persist_product on a store that an earlier crawl has written: one       *)
(* product, one special feature and a chain of categories are stored.      *)
(***************************************************************************)
InitPersist ==
  /\ now = 0
  /\ assoc = [kind \in Kinds |-> {}]
  /\ wlock = 0
  /\ call = [w \in DbWorkers |-> Idle]
  /\ conns = [w \in DbWorkers |-> 0]
  /\ ncalls = 0
  /\ last = [kind \in Kinds |-> [p \in ProductIds |-> NoLast]]
  /\ dims = [t \in NamedTables |->
               IF t = "special_features" THEN SeedNames(1)
               ELSE IF t = "categories" THEN SeedCategories(MaxKey) ELSE {}]
  /\ returned = [t \in Tables |-> [n \in Names |-> {}]]
  /\ products = SeedProducts(1)
  /\ InitCrawl

NextPersist ==
  \/ \E w \in Persisters : PersistBegin(w)
  \/ \E w \in Persisters : PersistEnter(w)
  \/ \E w \in Persisters : PersistAwait(w)
  \/ \E w \in Persisters : UpsertInsert(w)
  \/ \E w \in Persisters : UpsertSelect(w)
  \/ \E w \in Persisters : ProductStatement(w)
  \/ \E w \in Persisters : CategoryStatement(w)
  \/ \E w \in Persisters : CategorySelect(w)
  \/ \E w \in Persisters : EnsureUpsert(w)
  \/ \E w \in Persisters : EnsureDelete(w)
  \/ \E w \in Persisters : EnsureCommit(w)

SpecPersist == InitPersist /\ [][NextPersist]_vars

(***************************************************************************)
(* persist_product on the store an earlier crawl has left: every product   *)
(* is stored with one special feature, one grape variety and one category, *)
(* the association rows being the ones the member upserts insert.          *)
(***************************************************************************)
RECURSIVE SeedAssoc(_, _)
SeedAssoc(kind, n) ==
  IF n = 0 THEN {}
  ELSE UpsertMember(kind, SeedAssoc(kind, n - 1), n,
                    [id |-> 1,
                     percentage |-> IF kind = "grape_varieties"
                                    THEN Some(95) ELSE None], 0)

InitRecrawl ==
  /\ now = 0
  /\ assoc = [kind \in Kinds |-> SeedAssoc(kind, NumProducts)]
  /\ wlock = 0
  /\ call = [w \in DbWorkers |-> Idle]
  /\ conns = [w \in DbWorkers |-> 0]
  /\ ncalls = 0
  /\ last = [kind \in Kinds |-> [p \in ProductIds |-> NoLast]]
  /\ dims = [t \in NamedTables |->
               IF t \in {"special_features", "grape_varieties"}
               THEN SeedNames(1)
               ELSE IF t = "categories" THEN SeedCategories(MaxKey) ELSE {}]
  /\ returned = [t \in Tables |-> [n \in Names |-> {}]]
  /\ products = SeedProducts(NumProducts)
  /\ InitCrawl

SpecRecrawl == InitRecrawl /\ [][NextPersist]_vars

(***************************************************************************)
(* Two workers persist two different products at the same time on an empty *)
(* store: the first the product with every field, the second a product     *)
(* that shares its country with the first and has, as its only category,   *)
(* the name of the first product's last category, found under the same url *)
(* or on another shelf under another url.                                  *)
(***************************************************************************)
ProductOtherShelf ==
  [ProductBare EXCEPT
     !.breadcrumbs = Some(<<Crumb(1, <<ProductsPrefix, 2>>)>>)]

TwoWorkers == {1, 2}

ConcurrentProducts == <<{ProductFull}, {ProductBare, ProductOtherShelf}>>

ConcurrentBegin(w) ==
  /\ persist[w].at = "idle"
  /\ \E product \in ConcurrentProducts[w] :
       persist' = [persist EXCEPT ![w] =
                     [pc |-> PersistOrder[1], at |-> "enter",
                      n |-> 1, product |-> product,
                      ids |-> [t \in Range(PersistDims) |-> None],
                      product_id |-> 0, list |-> <<>>, categories |-> <<>>,
                      log |-> <<>>, result |-> Running]]
  /\ UNCHANGED <<dbvars, queue, closed, producer, workers, driver, persisted,
                 first_failure, handled>>

InitConcurrent == InitStore /\ InitCrawl

NextConcurrent ==
  \/ \E w \in TwoWorkers : ConcurrentBegin(w)
  \/ \E w \in TwoWorkers : PersistEnter(w)
  \/ \E w \in TwoWorkers : PersistAwait(w)
  \/ \E w \in TwoWorkers : UpsertInsert(w)
  \/ \E w \in TwoWorkers : UpsertSelect(w)
  \/ \E w \in TwoWorkers : ProductStatement(w)
  \/ \E w \in TwoWorkers : CategoryStatement(w)
  \/ \E w \in TwoWorkers : CategorySelect(w)
  \/ \E w \in TwoWorkers : EnsureUpsert(w)
  \/ \E w \in TwoWorkers : EnsureDelete(w)
  \/ \E w \in TwoWorkers : EnsureCommit(w)

SpecConcurrent == InitConcurrent /\ [][NextConcurrent]_vars

InitProducts == InitStore /\ InitCrawl

NextProductUpserts ==
  \/ \E w \in DbWorkers : ProductBegin(w)
  \/ \E w \in DbWorkers : ProductStatement(w)
  \/ Tick

SpecProducts == InitProducts /\ [][NextProductUpserts]_vars

(***************************************************************************)
(* Claims about the association reconcilers.                               *)
(***************************************************************************)
Commits(w) ==
  call[w].op = "ensure" /\ call[w].pc = "commit" /\ call'[w].pc = "ok"
TargetKeys(w) == Range(IdsOf(call[w].list))
StoredRows(w) == RowsOf(assoc[call[w].kind], call[w].product_id)
StoredRowsAfter(w) == RowsOf(assoc'[call[w].kind], call[w].product_id)

\* C1: when ensure_product_* returns Ok for (p, T), the stored rows of that
\* kind for p have exactly the keys of T.
C1_ReconcileExact ==
  [][\A w \in DbWorkers :
       Commits(w) => {r.key : r \in StoredRowsAfter(w)} = TargetKeys(w)]_vars

\* C2: when a reconcile to B returns Ok after a reconcile of the same product
\* and kind to A, the rows of A \cap B are the rows stored after the first
\* call (same created_at), the keys of A \ B are gone and those of B \ A exist.
C2_ReconcileTwice ==
  [][\A w \in DbWorkers :
       (Commits(w) /\ last[call[w].kind][call[w].product_id].has) =>
         LET A == last[call[w].kind][call[w].product_id].keys
             B == TargetKeys(w)
         IN /\ \A k \in A \cap B :
                 \E r \in StoredRowsAfter(w), q \in StoredRows(w) :
                   r.key = k /\ q.key = k /\ r.created_at = q.created_at
            /\ \A k \in A \ B : \A r \in StoredRowsAfter(w) : r.key # k
            /\ \A k \in B \ A : \E r \in StoredRowsAfter(w) : r.key = k]_vars

\* C3: a reconcile call whose upsert, delete or commit fails returns an error
\* and leaves the committed association tables as they were; the committed
\* tables change only in the commit step of a call that returns Ok, and then
\* no key outside the target list is left for the product.
C3_RollbackAtomic ==
  [][\A w \in DbWorkers :
       (call[w].op = "ensure" /\ call'[w] # call[w]) =>
         IF Commits(w)
         THEN {r.key : r \in StoredRowsAfter(w)} \subseteq TargetKeys(w)
         ELSE assoc' = assoc]_vars

\* C3 witness: a call failed after one of its statements had been executed.
C3_Witness ==
  \E w \in DbWorkers :
    call[w].op = "ensure" /\ call[w].pc = "err" /\ call[w].wrote

(***************************************************************************)
(* Claims about the dimension upserts.                                     *)
(***************************************************************************)
UpsertOk(w) == call[w].op = "upsert" /\ call[w].pc = "ok"

\* C7: every upsert of a name into a dimension table returns the same id, and
\* a table holds one row per name (exactly one once the name was upserted).
C7_UpsertIdempotent ==
  \A t \in Tables, n \in Names :
    /\ Cardinality(NameConflict(dims[t], n)) <= 1
    /\ returned[t][n] # {} =>
         returned[t][n] = {r.id : r \in NameConflict(dims[t], n)}

\* C7 witness: a name was upserted a second time and its id came back from
\* the lookup.
C7_Witness ==
  \E w \in DbWorkers : UpsertOk(w) /\ call[w].why = "select"

\* C8: two concurrent upserts of the same unseen name fail only when the store
\* reports an error, return the same id, and leave one row with that name.
C8_ConcurrentUpsert ==
  /\ \A w \in DbWorkers :
       (call[w].op = "upsert" /\ call[w].pc = "err") => call[w].why = "store"
  /\ \A w \in DbWorkers :
       UpsertOk(w) =>
         {r.id : r \in NameConflict(dims[call[w].table], call[w].name)} = {call[w].id}
  /\ \A v \in DbWorkers, w \in DbWorkers :
       (UpsertOk(v) /\ UpsertOk(w) /\ call[v].table = call[w].table
          /\ call[v].name = call[w].name) => call[v].id = call[w].id

\* C8 witness: two callers raced on an unseen name and both returned.
C8_Witness ==
  \E v \in DbWorkers, w \in DbWorkers :
    /\ v # w /\ UpsertOk(v) /\ UpsertOk(w)
    /\ call[v].table = call[w].table /\ call[v].name = call[w].name
    /\ call[w].raced

(***************************************************************************)
(* Claims about upsert_category.                                           *)
(***************************************************************************)
CategoryStmtRuns(w) ==
  /\ call[w].op = "upsert_category" /\ call[w].pc = "statement"
  /\ call'[w].pc \in {"ok", "select"}

\* C12: upsert_category with the name, url and parent of the stored row writes
\* nothing (the table is unchanged) and returns the id of that row, which it
\* looks up by name.
C12_CategoryNoWrite ==
  [][\A w \in DbWorkers :
       LET c == call[w]
           rows == dims["categories"]
       IN /\ ( /\ CategoryStmtRuns(w)
               /\ \E o \in NameConflict(rows, c.name) :
                    o.url = c.url /\ o.parent_category_id = c.parent_id )
             => (dims' = dims /\ call'[w].pc = "select")
          /\ ( /\ c.op = "upsert_category" /\ c.pc = "select"
               /\ call'[w].pc = "ok" )
             => /\ dims' = dims
                /\ {r.id : r \in NameConflict(rows, c.name)} = {call'[w].id}]_vars

\* C12 witness: a category with no parent was upserted again with the stored
\* values and the call returned the id from the lookup.
C12_Witness ==
  \E w \in DbWorkers :
    /\ call[w].op = "upsert_category" /\ call[w].pc = "ok"
    /\ call[w].why = "select"
    /\ \E o \in call[w].met :
         /\ o.url = call[w].url /\ o.parent_category_id = call[w].parent_id
         /\ o.id = call[w].id

\* C13: upsert_category for a stored name with another url or another parent
\* (absent or present on either side) stores the url and the parent given and
\* changes updated_at.
C13_CategoryChangeStored ==
  [][\A w \in DbWorkers :
       LET c == call[w]
           rows == dims["categories"]
       IN ( /\ CategoryStmtRuns(w)
            /\ \E o \in NameConflict(rows, c.name) :
                 o.url # c.url \/ o.parent_category_id # c.parent_id )
          => \A o \in NameConflict(rows, c.name) :
               \E r \in NameConflict(dims'["categories"], c.name) :
                 /\ r.id = o.id
                 /\ r.url = c.url
                 /\ r.parent_category_id = c.parent_id
                 /\ r.updated_at # o.updated_at]_vars

(***************************************************************************)
(* Claims about persist_product.                                           *)
(***************************************************************************)
Repeat(x, n) == [i \in 1..n |-> x]

IsPrefix(a, b) == Len(a) <= Len(b) /\ \A i \in 1..Len(a) : a[i] = b[i]

StepsOf(log) == [i \in 1..Len(log) |-> log[i].step]

\* The steps the body of persist_product runs for a product when none fails
\* (an absent dimension field makes no step).
ExpectedSteps(product) ==
  SelectSeq(PersistDims, LAMBDA t : product.detailed[t] # None)
  \o <<"get_ld_product", "upsert_product">>
  \o Repeat("upsert_special_feature", Len(Flatten(product.special_features)))
  \o <<"ensure_product_special_features">>
  \o Repeat("upsert_grape_variety", Len(Flatten(product.grape_varieties)))
  \o <<"ensure_product_grape_varieties", "extract_categories">>
  \o Repeat("upsert_category",
            Len(SelectSeq(Flatten(product.breadcrumbs),
                          LAMBDA li : li.item.id[1] = ProductsPrefix)))
  \o <<"ensure_product_categories">>

StepTable(step) ==
  CASE step = "upsert_special_feature" -> "special_features"
    [] step = "upsert_grape_variety" -> "grape_varieties"
    [] step = "upsert_category" -> "categories"
    [] OTHER -> step

\* The row a completed upsert step returned the id of is in the store.
StepCommitted(e) ==
  CASE e.step \in Range(PersistDims)
         \cup {"upsert_special_feature", "upsert_grape_variety"} ->
         \E r \in dims[StepTable(e.step)] : r.id = e.ret /\ r.name = e.arg
    [] e.step = "upsert_category" ->
         \E r \in dims["categories"] : r.id = e.ret /\ r.name = e.arg[1]
    [] e.step = "upsert_product" ->
         \E r \in products : r.id = e.ret /\ r.saq_code = e.arg
    [] OTHER -> TRUE

\* C14: the completed steps of a persist_product call are a prefix of the
\* fixed step order; it returns Ok after the whole order and otherwise the
\* error of the step after the last completed one, after which it runs
\* nothing more; what the completed steps wrote stays in the store.
C14_PersistOrderAndAbort ==
  /\ [](\A w \in Persisters :
          LET f == persist[w]
              expected == ExpectedSteps(f.product)
          IN f.at # "idle" =>
               /\ IsPrefix(StepsOf(f.log), expected)
               /\ f.result = Ok => StepsOf(f.log) = expected
               /\ IsErr(f.result) =>
                    /\ Len(f.log) < Len(expected)
                    /\ f.result = Err(expected[Len(f.log) + 1], w)
               /\ \A i \in 1..Len(f.log) : StepCommitted(f.log[i]))
  /\ [][\A w \in Persisters :
          /\ IsErr(persist[w].result) =>
               persist'[w] = persist[w] /\ call'[w] = call[w]
          /\ ( /\ persist[w].at = "await" /\ call[w].pc = "err"
               /\ persist'[w] # persist[w] )
             => /\ IsErr(persist'[w].result)
                /\ dims' = dims /\ products' = products /\ assoc' = assoc]_vars

\* C14 witness: a persist_product call failed in a category upsert after its
\* product upsert, and the products row it wrote is stored.
C14_Witness ==
  \E w \in Persisters :
    /\ persist[w].result = Err("upsert_category", w)
    /\ \E r \in products :
         /\ r.id = persist[w].product_id
         /\ r.saq_code = persist[w].product.saq_code
         /\ r.name = Flatten(persist[w].product.ld_product).name

CategoryEntries(log) == SelectSeq(log, LAMBDA e : e.step = "upsert_category")

\* C15: the category upserts of a persist_product call follow the breadcrumb
\* chain: the i-th call has the name and url of the i-th category of the
\* chain, no parent for the first and the id returned by the call before for
\* the others; ensure_product_categories gets the returned ids in chain order.
C15_CategoryChain ==
  \A w \in Persisters :
    LET f == persist[w]
        chain == extract_categories(f.product).categories
        upserts == CategoryEntries(f.log)
        ids == [i \in 1..Len(upserts) |-> upserts[i].ret]
    IN f.at # "idle" =>
         /\ Len(upserts) <= Len(chain)
         /\ \A i \in 1..Len(upserts) :
              upserts[i].arg =
                <<chain[i].name, chain[i].url,
                  IF i = 1 THEN None ELSE Some(upserts[i - 1].ret)>>
         /\ ( /\ f.pc = "ensure_product_categories" /\ f.at = "await"
              /\ call[w].op = "ensure"
              /\ call[w].pc \in {"upsert", "delete", "commit"} )
            => /\ call[w].kind = "categories"
               /\ call[w].product_id = f.product_id
               /\ IdsOf(call[w].list) = ids
               /\ Len(ids) = Len(chain)
         /\ \A i \in 1..Len(f.log) :
              f.log[i].step = "ensure_product_categories" =>
                f.log[i].arg = <<f.product_id, ids>> /\ Len(ids) = Len(chain)

\* C15 witness: a chain of two categories was upserted and reconciled, the
\* second category with the first as parent.
C15_Witness ==
  \E w \in Persisters :
    LET upserts == CategoryEntries(persist[w].log)
    IN /\ persist[w].result = Ok
       /\ Len(upserts) = 2
       /\ upserts[1].arg[3] = None
       /\ upserts[2].arg[3] = Some(upserts[1].ret)
       /\ upserts[1].ret # upserts[2].ret

(***************************************************************************)
(* Claims about upsert_product.                                            *)
(***************************************************************************)
ProductStmtOk(w) ==
  call[w].op = "upsert_product" /\ call[w].pc = "statement" /\ call'[w].pc = "ok"

\* C9: upsert_product keeps one row per saq_code; it inserts the row on the
\* first call and on a later call returns the same id and replaces every field
\* but saq_code and created_at by the value supplied.
C9_ProductUpsert ==
  [][\A w \in DbWorkers :
       ProductStmtOk(w) =>
         LET code == call[w].saq_code
             old == CodeConflict(products, code)
             new == CodeConflict(products', code)
         IN /\ Cardinality(new) = 1
            /\ \A r \in new :
                 /\ r.id = call'[w].product_id
                 /\ FieldsMatch(r, call[w].fields)
                 /\ \A o \in old : r.id = o.id /\ r.created_at = o.created_at
                 /\ old = {} => r.id \notin {q.id : q \in products}
            /\ products' \ new = products \ old]_vars

\* C9 witness: a second upsert of a code replaced values by absent ones.
C9_Witness ==
  \E w \in DbWorkers :
    /\ call[w].op = "upsert_product" /\ call[w].pc = "ok"
    /\ call[w].conflict /\ call[w].changed
    /\ call[w].fields = FieldsNull
    /\ \E r \in products : r.id = call[w].product_id /\ r.upc_code = None

\* C10: a second upsert of a code leaves the row with an updated_at strictly
\* greater than before.
C10_UpdatedAtIncreases ==
  [][\A w \in DbWorkers :
       (ProductStmtOk(w) /\ CodeConflict(products, call[w].saq_code) # {}) =>
         \A o \in CodeConflict(products, call[w].saq_code),
            r \in CodeConflict(products', call[w].saq_code) :
           r.updated_at > o.updated_at]_vars

\* C11: a products row, once it exists, stays in the table with the same id,
\* saq_code and created_at through every step of every caller.
C11_CreatedAtImmutable ==
  [][\A o \in products :
       \E r \in products' :
         r.id = o.id /\ r.saq_code = o.saq_code /\ r.created_at = o.created_at]_vars

\* C11 witness: a row was upserted again in a later second than the one it
\* was created in.
C11_Witness ==
  \E r \in products : r.updated_at > r.created_at

(***************************************************************************)
(* Claims about the crawl pipeline.                                        *)
(***************************************************************************)
Returned_crawl == driver.pc \in {"done", "exited"}

\* C4: crawl returns Ok if and only if the producer task and every worker
\* task finished Ok; otherwise it returns an error.
C4_OkIffAllOk ==
  Returned_crawl =>
    /\ driver.result = Ok \/ IsErr(driver.result)
    /\ driver.result = Ok <=>
         (producer.result = Ok /\ \A w \in Workers : workers[w].result = Ok)

\* C4 witness: crawl returned Ok after stubs were persisted.
C4_Witness ==
  /\ Returned_crawl /\ driver.result = Ok
  /\ \E s \in Stubs : persisted[s] > 0

\* C5: a worker whose product fetch or persist_product failed has closed the
\* channel when it exits with the error, and crawl then returns an error.
C5_WorkerErrorClosesAndFails ==
  \A w \in Workers :
    IsErr(workers[w].result) =>
      /\ closed
      /\ workers[w].pc = "done"
      /\ Returned_crawl => IsErr(driver.result)

\* C5 witness: a worker failed in persist_product and crawl has returned.
C5_Witness ==
  /\ Returned_crawl
  /\ \E w \in Workers : workers[w].result = Err("persist", w)

\* C6 (as claimed): the error crawl returns is the error of the task whose
\* failure happened first.
C6_FirstFailureReturned ==
  (Returned_crawl /\ IsErr(driver.result)) => driver.result = first_failure

\* C6 (amended): crawl returns the producer's error when the producer failed,
\* and otherwise the error of the failed worker that was spawned first.
C6_ProducerThenSpawnOrder ==
  Returned_crawl =>
    driver.result =
      IF IsErr(producer.result) THEN producer.result
      ELSE IF Failed = {} THEN Ok
      ELSE workers[CHOOSE w \in Failed : \A v \in Failed : w <= v].result

\* C6 witness: crawl returned the producer's send error although a worker
\* had failed first.
C6_Witness ==
  /\ Returned_crawl
  /\ driver.result = Err("send", 0)
  /\ first_failure # Err("send", 0)

RECURSIVE ReceivedUpTo(_)
ReceivedUpTo(n) == IF n = 0 THEN 0 ELSE handled[n].received + ReceivedUpTo(n - 1)

NumReceived == ReceivedUpTo(MaxPages * PageSize)

\* C16: the channel never holds more stubs than its capacity, and a send on
\* a full open channel waits: the producer has enqueued at most Capacity
\* stubs more than the workers have received.
C16_Backpressure ==
  /\ [](Len(queue) <= Capacity)
  /\ [](Len(producer.enqueued) <= NumReceived + Capacity)
  /\ [][(producer.pc = "send" /\ Len(queue) = Capacity /\ ~closed)
          => producer' = producer]_vars

\* C16 witness: the channel holds the first stub, no worker has received it
\* and the producer waits in its second send.
C16_Witness ==
  /\ producer.pc = "send" /\ ~closed
  /\ Len(producer.enqueued) = Capacity /\ Len(queue) = Capacity
  /\ NumReceived = 0

RECURSIVE CatalogOrder(_)
CatalogOrder(pages) ==
  IF pages = 0 THEN <<>> ELSE CatalogOrder(pages - 1) \o PageStubs(pages)

\* C17: the producer requests the pages 1, 2, 3, ... in this order, requests
\* a page only when every stub of the pages before it has been enqueued, and
\* enqueues the stubs in catalog order; the channel holds the stubs enqueued
\* last, oldest first.
C17_PageAndStubOrder ==
  LET requested == producer.requested
      enqueued == producer.enqueued
  IN /\ requested = [i \in 1..Len(requested) |-> i]
     /\ IsPrefix(enqueued, CatalogOrder(MaxPages))
     /\ requested # <<>> => Len(enqueued) >= (Len(requested) - 1) * PageSize
     /\ Len(enqueued) <= Len(requested) * PageSize
     /\ Len(queue) <= Len(enqueued)
     /\ queue = SubSeq(enqueued, Len(enqueued) - Len(queue) + 1, Len(enqueued))

\* C17 witness: the second page was requested and its first stub enqueued.
C17_Witness ==
  /\ producer.requested = <<1, 2>>
  /\ producer.enqueued = PageStubs(1) \o <<Stub(2, 1)>>

Wrapped ==
  /\ producer.response.kind = "html"
  /\ producer.response.current_page # None
  /\ producer.response.current_page # Last(producer.requested)

\* C18: when the site renders another page than the one requested, the
\* producer closes the channel and finishes Ok, having enqueued the stubs of
\* the pages before it once each.
C18_WrapEndsCatalog ==
  (producer.pc = "done" /\ Wrapped) =>
    /\ producer.result = Ok
    /\ closed
    /\ producer.enqueued = CatalogOrder(Len(producer.requested) - 1)

\* C18 witness: page 1 was served, the request of page 2 was answered with
\* page 1 and the producer finished Ok after the stubs of page 1.
C18_Witness ==
  /\ producer.pc = "done" /\ producer.result = Ok
  /\ producer.requested = <<1, 2>>
  /\ producer.response.current_page = Some(1)
  /\ producer.enqueued = PageStubs(1)

PageErrors ==
  {Err(what, 0) : what \in {"page_request", "page_pagination", "page_linked_data"}}

\* C19: a page fetch that returns an error ends the producer with that error
\* and the channel closed, no page is requested after it, and crawl returns
\* that error.
C19_PageErrorEndsCrawl ==
  /\ [](producer.result \in PageErrors =>
          /\ producer.pc = "done"
          /\ closed
          /\ Returned_crawl => driver.result = producer.result)
  /\ [][producer.pc = "done" => producer' = producer]_vars

\* C19 witness: the fetch of page 2 failed after the stubs of page 1 were
\* enqueued, and crawl returned that error.
C19_Witness ==
  /\ Returned_crawl
  /\ driver.result = Err("page_pagination", 0)
  /\ producer.requested = <<1, 2>>
  /\ producer.enqueued = PageStubs(1)

Times(s) == IF s \in Range(producer.enqueued) THEN 1 ELSE 0

\* C20: when crawl returns Ok, the stubs of every page before the sentinel
\* were enqueued, and each of them was received once, fetched once and
\* persisted once; a worker returns Ok only from a closed and empty channel.
C20_EveryStubOnce ==
  /\ []((Returned_crawl /\ driver.result = Ok) =>
          /\ producer.enqueued = CatalogOrder(Len(producer.requested) - 1)
          /\ \A s \in Stubs :
               /\ handled[s].received = Times(s)
               /\ handled[s].fetched = Times(s)
               /\ persisted[s] = Times(s))
  /\ [][\A w \in Workers :
          (workers[w].result # Ok /\ workers'[w].result = Ok)
            => (closed /\ queue = <<>>)]_vars

\* C20 witness: crawl returned Ok after two pages, every stub persisted.
C20_Witness ==
  /\ Returned_crawl /\ driver.result = Ok
  /\ producer.enqueued = CatalogOrder(MaxPages)
  /\ \A s \in Stubs : persisted[s] = 1

\* C21: once the channel is closed the producer requests no further catalog
\* page and enqueues no further stub, and once it is closed and empty no
\* worker receives a stub.
C21_NothingNewAfterClose ==
  [][closed =>
       /\ producer'.requested = producer.requested
       /\ producer'.enqueued = producer.enqueued
       /\ (queue = <<>> =>
             \A s \in Stubs : handled'[s].received = handled[s].received)]_vars

\* The stubs a failed worker had received when it failed.
HeldByFailed == {workers[w].stub : w \in Failed}

\* C22: when crawl has returned and some worker has not failed, every stub
\* that was enqueued has been received, fetched and persisted (stated here
\* for the stubs other than those a worker failed on).
C22_InFlightNotLost ==
  (Returned_crawl /\ \E w \in Workers : ~IsErr(workers[w].result)) =>
    \A s \in Range(producer.enqueued) \ HeldByFailed :
      /\ handled[s].received = 1
      /\ handled[s].fetched = 1
      /\ persisted[s] = 1

\* C30: the driver takes the producer's result first: it leaves its first
\* await only when the producer has finished, returns the producer's error
\* without waiting for any worker, awaits the workers only after a producer
\* that finished Ok, and then returns once all of them have finished, an
\* error exactly when one of them failed.
C30_ProducerAwaitedFirst ==
  /\ [][(driver.pc = "await_page" /\ driver'.pc # "await_page") =>
          /\ producer.pc = "done"
          /\ IF IsErr(producer.result)
             THEN driver' = [pc |-> "done", result |-> producer.result]
             ELSE driver'.pc = "join_all"]_vars
  /\ [](driver.pc = "join_all" => producer.result = Ok)
  /\ [][(driver.pc = "join_all" /\ driver'.pc # "join_all") =>
          /\ \A w \in Workers : workers[w].pc = "done"
          /\ driver'.pc = "done"
          /\ IsErr(driver'.result) <=> Failed # {}]_vars

\* C30 witness: crawl returned the producer's error while a worker was
\* still fetching a product.
C30_Witness ==
  /\ driver.pc = "done" /\ IsErr(producer.result)
  /\ driver.result = producer.result
  /\ \E w \in Workers : workers[w].pc = "product"

Enums ==
  {"ItemAvailability", "OfferItemCondition", "ProductOfQuebec",
   "SugarContentEquality"}

\* C25: db_serialize maps every variant of the four enumerations to a string
\* the store admits for its column, two variants of one enumeration never
\* to the same string, and these are the strings persist_product hands to
\* the product upsert.
C25_SerializeWithinCheck ==
  /\ \A enum \in Enums :
       /\ \A v \in Variants(enum) : db_serialize(enum, v) \in Permitted(enum)
       /\ \A v, u \in Variants(enum) :
            db_serialize(enum, v) = db_serialize(enum, u) => v = u
  /\ eval.ret # None =>
       LET f == Unwrap(eval.ret)
       IN /\ f.availability \in Permitted("ItemAvailability")
          /\ f.item_condition \in Permitted("OfferItemCondition")
          /\ f.product_of_quebec \in Options(Permitted("ProductOfQuebec"))
          /\ f.sugar_content_equality
               \in Options(Permitted("SugarContentEquality"))
          /\ \A g \in EnumeratedFields :
               (/\ db_serialize("ItemAvailability", g.availability)
                     = f.availability
                /\ db_serialize("OfferItemCondition", g.item_condition)
                     = f.item_condition
                /\ MapOption("ProductOfQuebec", g.product_of_quebec)
                     = f.product_of_quebec
                /\ MapOption("SugarContentEquality", g.sugar_content_equality)
                     = f.sugar_content_equality) => g = eval.arg

\* C25 witness: a product on pre-sale, refurbished, made in Quebec, with a
\* sugar content given as a lower bound, has been serialized.
C25_Witness ==
  /\ eval.fn = "db_serialize" /\ eval.ret # None
  /\ eval.arg = [availability |-> "PreSale", item_condition |-> "Refurbished",
                 product_of_quebec |-> Some("MadeIn"),
                 sugar_content_equality |-> Some("GreaterThan")]
  /\ Unwrap(eval.ret).availability = "pre_sale"
  /\ Unwrap(eval.ret).sugar_content_equality = Some(">")

PassedFor(list, k) ==
  {list[i].percentage : i \in {j \in 1..Len(list) : list[j].id = k}}

\* C26: when ensure_product_grape_varieties returns Ok, every stored row of
\* the product whose grape variety is in the list has the percentage passed
\* for it in this call, absent included; and when the call has run its
\* upserts, its transaction holds such a row for every member of the list.
C26_PercentageStored ==
  /\ [][\A w \in DbWorkers :
          (Commits(w) /\ call[w].kind = "grape_varieties") =>
            \A r \in StoredRowsAfter(w) :
              r.key \in TargetKeys(w) =>
                PassedFor(call[w].list, r.key) = {r.percentage}]_vars
  /\ [](\A w \in DbWorkers :
          (/\ call[w].op = "ensure" /\ call[w].pc = "delete"
           /\ call[w].kind = "grape_varieties" /\ call[w].list # <<>>) =>
            \A k \in TargetKeys(w) :
              \E r \in RowsOf(call[w].work, call[w].product_id) :
                r.key = k /\ PassedFor(call[w].list, k) = {r.percentage})

\* C26 witness: the row of product 1 and grape variety 1, stored with 95
\* percent by an earlier crawl, has been written again by a call that
\* returned Ok and now has no percentage.
C26_Witness ==
  /\ \E w \in DbWorkers :
       call[w].pc = "ok" /\ call[w].kind = "grape_varieties"
  /\ last["grape_varieties"][1] = [has |-> TRUE, keys |-> {1}]
  /\ \E r \in assoc["grape_varieties"] :
       /\ r.product_id = 1 /\ r.key = 1
       /\ r.created_at = 0 /\ r.updated_at = 1
       /\ r.percentage = None

ForeignKey(r, t) ==
  CASE t = "producers" -> r.producer_id
    [] t = "promoting_agents" -> r.promoting_agent_id
    [] t = "colors" -> r.color_id
    [] t = "regions" -> r.region_id
    [] t = "countries" -> r.country_id
    [] t = "regulated_designations" -> r.regulated_designation_id
    [] t = "designations_of_origin" -> r.designation_of_origin_id
    [] t = "classifications" -> r.classification_id

Absent(w, t) == persist[w].product.detailed[t] = None

\* C27: for a dimension field the extracted product lacks, persist_product
\* makes no call on that table, leaves the table as it is and resolves no
\* id; its product upsert stores, for each of the eight fields, no id when
\* the field is absent and otherwise the id of the row of that table with
\* the field's name.
C27_AbsentDimensionSkipped ==
  /\ [](\A w \in Persisters : \A t \in Range(PersistDims) :
          (persist[w].at # "idle" /\ Absent(w, t)) =>
            /\ persist[w].ids[t] = None
            /\ \A i \in 1..Len(persist[w].log) : persist[w].log[i].step # t
            /\ ~(persist[w].at = "await" /\ persist[w].pc = t))
  /\ [][\A w \in Persisters : \A t \in Range(PersistDims) :
          (/\ persist[w].at = "enter" /\ persist[w].pc = t /\ Absent(w, t)
           /\ persist'[w] # persist[w]) =>
            /\ call' = call /\ dims' = dims
            /\ persist'[w].pc = NextStep(t)]_vars
  /\ [][\A w \in Persisters :
          (ProductStmtOk(w) /\ persist[w].at = "await") =>
            \A r \in CodeConflict(products', call[w].saq_code) :
              \A t \in Range(PersistDims) :
                ForeignKey(r, t) =
                  IF Absent(w, t) THEN None
                  ELSE SelectIdByName(dims[t],
                                      Unwrap(persist[w].product.detailed[t]))]_vars

\* C27 witness: the product with a country and no other dimension field is
\* stored with the id of that country and no other foreign key, and the
\* seven other tables are empty.
C27_Witness ==
  \E w \in Persisters :
    /\ persist[w].pc = "return"
    /\ persist[w].product = ProductBare
    /\ \E r \in products :
         /\ r.id = persist[w].product_id
         /\ r.country_id # None
         /\ r.country_id = SelectIdByName(dims["countries"], 1)
         /\ \A t \in Range(PersistDims) \ {"countries"} :
              ForeignKey(r, t) = None /\ dims[t] = {}

Kept(rows, rowsAfter) ==
  \A r \in rows : \E q \in rowsAfter : q.id = r.id /\ q.name = r.name

\* C24: no step removes a row of a dimension table, of the categories table
\* or of the products table or gives it another name (code), and every id
\* an upsert has returned identifies a row with the name (code) it was
\* returned for.
C24_RowsNeverDeleted ==
  /\ [][/\ \A t \in NamedTables : Kept(dims[t], dims'[t])
        /\ \A r \in products :
             \E q \in products' : q.id = r.id /\ q.saq_code = r.saq_code]_vars
  /\ [](\A t \in Tables : \A n \in Names : \A id \in returned[t][n] :
          \E r \in dims[t] : r.id = id /\ r.name = n)
  /\ [](\A w \in Persisters : \A i \in 1..Len(persist[w].log) :
          LET e == persist[w].log[i]
          IN /\ e.step \in Range(PersistDims) =>
                  \E r \in dims[e.step] : r.id = e.ret /\ r.name = e.arg
             /\ e.step = "upsert_category" =>
                  \E r \in dims["categories"] : r.id = e.ret /\ r.name = e.arg[1]
             /\ e.step = "upsert_product" =>
                  \E r \in products : r.id = e.ret /\ r.saq_code = e.arg)

\* C24 witness: persist_product has upserted a stored special feature and a
\* stored category again, has reconciled the three association tables and
\* is about to return; the rows stored before are still there.
C24_Witness ==
  \E w \in Persisters :
    /\ persist[w].pc = "return"
    /\ persist[w].product = ProductFull
    /\ returned["special_features"][1] # {}
    /\ SeedNames(1) \subseteq dims["special_features"]
    /\ \A c \in SeedCategories(MaxKey) :
         \E r \in dims["categories"] : r.id = c.id /\ r.name = c.name

(* The content of the store without timestamps and generated ids: rows are
   named by their names and codes. *)
NameOfId(rows, opt) == {r.name : r \in {x \in rows : Some(x.id) = opt}}

CategoryContent(rows) ==
  {[name |-> r.name, url |-> r.url,
    parent |-> NameOfId(rows, r.parent_category_id)] : r \in rows}

AssocContent(kind, table) ==
  {[saq_code |-> {q.saq_code : q \in {x \in products : x.id = r.product_id}},
    member |-> NameOfId(dims[table], Some(r.key)),
    percentage |-> r.percentage] : r \in assoc[kind]}

(* What the category loop of persist_product leaves of a breadcrumb chain
   when nothing else runs. *)
RECURSIVE ApplyChain(_, _, _)
ApplyChain(rows, chain, parent_id) ==
  IF chain = <<>> THEN rows
  ELSE LET c == Head(chain)
           up == UpsertCategoryStmt(rows, c.name, c.url, parent_id, 0)
           id == IF up.returning # None THEN Unwrap(up.returning)
                 ELSE Unwrap(SelectIdByName(up.rows, c.name))
       IN ApplyChain(up.rows, Tail(chain), Some(id))

Chain(w) == extract_categories(persist[w].product).categories

(* What the reconciler leaves of a list of member names for one product:
   the members its delete statement does not remove. *)
ListIds(table, names) ==
  [i \in 1..Len(names) |-> Unwrap(SelectIdByName(dims[table], names[i]))]

KeptMembers(w, table, names, pcts) ==
  {[saq_code |-> {persist[w].product.saq_code},
    member |-> {names[i]}, percentage |-> pcts[i]] :
     i \in {j \in 1..Len(names) :
              ~SqlNotIn(ListIds(table, names)[j],
                        to_value_list(ListIds(table, names)))}}

GrapeNames(w) ==
  [i \in 1..Len(Flatten(persist[w].product.grape_varieties)) |->
     Flatten(persist[w].product.grape_varieties)[i].name]

GrapePercentages(w) ==
  [i \in 1..Len(Flatten(persist[w].product.grape_varieties)) |->
     Flatten(persist[w].product.grape_varieties)[i].percentage]

NoPercentages(names) == [i \in 1..Len(names) |-> None]

ChainNames(w) == [i \in 1..Len(Chain(w)) |-> Chain(w)[i].name]

BothOk == \A w \in TwoWorkers : persist[w].at = "done" /\ persist[w].result = Ok

\* C23: when two workers have persisted two different products, the store
\* holds, whatever the interleaving was, what the first product followed by
\* the second leaves: one row per dimension name of either product, the
\* fields of each product with the ids of its own dimension names, the
\* association rows each product's own reconciliation leaves, and for each
\* category the url and the parent that the two chains upserted one after
\* the other leave.
C23_OrderIndependent ==
  BothOk =>
    /\ \A t \in Range(PersistDims) :
         /\ {r.name : r \in dims[t]} =
              UNION {persist[w].product.detailed[t] : w \in TwoWorkers}
         /\ \A r, q \in dims[t] : r.name = q.name => r = q
    /\ \A w \in TwoWorkers :
         \E r \in products :
           /\ r.saq_code = persist[w].product.saq_code
           /\ \A q \in products : q.saq_code = r.saq_code => q = r
           /\ r.name = Flatten(persist[w].product.ld_product).name
           /\ r.price_cad = Flatten(persist[w].product.ld_product).price_cad
           /\ \A t \in Range(PersistDims) :
                NameOfId(dims[t], ForeignKey(r, t)) = persist[w].product.detailed[t]
    /\ AssocContent("special_features", "special_features") =
         UNION {KeptMembers(w, "special_features",
                            Flatten(persist[w].product.special_features),
                            NoPercentages(Flatten(persist[w].product.special_features))) :
                w \in TwoWorkers}
    /\ AssocContent("grape_varieties", "grape_varieties") =
         UNION {KeptMembers(w, "grape_varieties", GrapeNames(w),
                            GrapePercentages(w)) : w \in TwoWorkers}
    /\ AssocContent("categories", "categories") =
         UNION {KeptMembers(w, "categories", ChainNames(w),
                            NoPercentages(ChainNames(w))) : w \in TwoWorkers}
    /\ CategoryContent(dims["categories"]) =
         CategoryContent(ApplyChain(ApplyChain({}, Chain(1), None),
                                    Chain(2), None))

(***************************************************************************)
(* C28: parse_size reads "<count> x <value> <unit>" and "<value> <unit>"   *)
(* with the units mL, ml and L, and returns the count (1 when the text     *)
(* gives none) and the volume of one container in millilitres, litres      *)
(* times 1000, rounded up; "6 x 200ml" gives 6 and 200, "2.25 L" gives 1   *)
(* and 2250.                                                               *)
(***************************************************************************)
CeilDiv(a, b) == (a + b - 1) \div b

StatedCount(a) ==
  IF a.count = <<>> THEN 1
  ELSE TextToInteger(SubSeq(a.count, 1, DigitRun(a.count, 1)))

StatedMillilitres(a) ==
  CeilDiv(a.n * (IF a.unit = <<"L">> THEN 1000 ELSE 1), 10^a.k)

SixPack == <<"6", " ", "x", " ", "2", "0", "0", "m", "l">>

StatedForm(a) ==
  /\ a.count \in {<<>>, <<"6", " ", "x", " ">>, <<"2", "5", "5", " ", "x", " ">>}
  /\ a.unit \in SizeUnits
  /\ a.separator = <<" ">> \/ SizeText(a) = SixPack

C28_ParseSize ==
  eval.fn = "parse_size" /\ eval.ret # None /\ StatedForm(eval.arg) =>
    Unwrap(eval.ret) = SizeOk(StatedCount(eval.arg), StatedMillilitres(eval.arg))

(***************************************************************************)
(* C29: parse_grape_varieties returns one entry for each comma-separated   *)
(* part, in order; the percentage of an entry is the "<digits> %" that     *)
(* ends the part, a word of its own, and none when the part does not end   *)
(* so; its name is the rest of the part, trimmed; a part with an empty     *)
(* name makes the whole parse fail.  "Zinfandel 95 %, Other grape variety  *)
(* (ies) 5 %" gives two entries, with 95 and 5.  Percentages are taken up  *)
(* to 255, the range of the field.                                         *)
(***************************************************************************)
StatedEntry(piece) ==
  LET part == Trim(piece)
      n == Len(part)
      run == DigitRunBack(part, n - 2)
      ends_in_percentage ==
        /\ n >= 3 /\ part[n] = "%" /\ IsWhitespace(part[n - 1]) /\ run >= 1
        /\ n - 2 - run = 0 \/ IsWhitespace(part[n - 2 - run])
  IN IF ends_in_percentage
     THEN [name |-> Trim(SubSeq(part, 1, n - 2 - run)),
           percentage |-> Some(TextToInteger(SubSeq(part, n - 1 - run, n - 2)))]
     ELSE [name |-> part, percentage |-> None]

StatedEntries(pieces) == [i \in 1..Len(pieces) |-> StatedEntry(pieces[i])]

WithinField(pieces) ==
  \A i \in 1..Len(pieces) :
    \A p \in StatedEntry(pieces[i]).percentage : p <= 255

C29_ParseGrapeVarieties ==
  eval.fn = "parse_grape_varieties" /\ eval.ret # None
    /\ WithinField(eval.arg) =>
    LET ret == Unwrap(eval.ret)
        entries == StatedEntries(eval.arg)
    IN /\ IF \E i \in 1..Len(entries) : entries[i].name = <<>>
          THEN ret[1] = "err"
          ELSE ret = GrapesOk(entries)
       /\ eval.arg = <<Zinfandel, OtherVarieties>> =>
            /\ ret[1] = "ok" /\ Len(ret[2]) = 2
            /\ ret[2][1].percentage = Some(95)
            /\ ret[2][2].percentage = Some(5)

\* A worker in the middle of client.product or persist_product.
Busy(w) == workers[w].pc \in {"product", "persist"}

\* C31: closing the channel leaves the queued stubs receivable: a worker
\* returns Ok only from a receive on the closed and empty channel, a worker
\* that has not failed leaves no stub in the queue behind, and a worker that
\* is fetching or persisting when a peer fails is not interrupted: when the
\* process ends no worker is cut off in the middle of a stub.
C31_DrainAfterClose ==
  /\ [][\A w \in Workers :
          (workers[w].result = Running /\ workers'[w].result = Ok) =>
            workers[w].pc = "recv" /\ closed /\ queue = <<>>]_vars
  /\ [](driver.pc = "exited" =>
          \A w \in Workers :
            /\ Failed # {} => ~Busy(w)
            /\ workers[w].pc = "recv" => queue = <<>>)

\* The producer waits in send on a full, open channel.
ProducerBlocked == producer.pc = "send" /\ ~HasRoom /\ ~closed

\* A worker waits in recv on an empty, open channel.
WorkerBlocked(w) == workers[w].pc = "recv" /\ queue = <<>> /\ ~closed

\* How far the tasks have come: the position of the producer in its loop
\* and the stubs it has sent, the stubs taken from the channel, the position
\* of every worker behind its latest receive, and the position of the driver.
ProducerRank == [page |-> 0, fetch |-> 1, send |-> 2, done |-> 3]
WorkerRank == [product |-> 0, persist |-> 1, recv |-> 2, done |-> 3]
DriverRank == [await_page |-> 0, join_all |-> 1, done |-> 2, exited |-> 3]

RECURSIVE WorkerRanks(_)
WorkerRanks(n) ==
  IF n = 0 THEN 0 ELSE WorkerRank[workers[n].pc] + WorkerRanks(n - 1)

Measure ==
  4 * producer.page_number + ProducerRank[producer.pc]
  + Len(producer.enqueued) + 3 * (Len(producer.enqueued) - Len(queue))
  + WorkerRanks(NumWorkers) + DriverRank[driver.pc]

\* C32: when every page fetch, product fetch and persist call returns, crawl
\* returns in the end.  Every step of a task brings the crawl forward, so no
\* run goes on forever; while crawl has not returned some task can take a
\* step; while the producer waits on a full channel some worker is still
\* running, to take a stub or to close the channel, and while a worker waits
\* on an empty channel the producer is still running, to send or to close:
\* with every task that can step being polled, crawl returns, whatever
\* number of workers has failed.
C32_CrawlReturns ==
  /\ [][Measure' > Measure]_vars
  /\ [](~Returned_crawl => ENABLED Next)
  /\ [](ProducerBlocked => \E w \in Workers : workers[w].pc # "done")
  /\ [](\A w \in Workers : WorkerBlocked(w) => producer.pc # "done")

\* The same under the fairness of the scheduler, as a temporal formula.
CrawlReturns ==
  /\ <>Returned_crawl
  /\ ProducerBlocked ~> ~ProducerBlocked
  /\ \A w \in Workers : WorkerBlocked(w) ~> ~WorkerBlocked(w)

\* crawl has returned in a run where every worker failed and the producer
\* was released from its send by the close.
C32_Witness ==
  /\ Returned_crawl
  /\ Failed = Workers
  /\ producer.result = Err("send", 0)

\* C33: a send of the producer on the channel a failed worker has closed,
\* whether the producer was waiting in it or came to it afterwards, fails:
\* the stub is not enqueued and the producer ends with the send error; a
\* producer that ended so had every page it requested served, and a worker
\* had failed.
C33_SendFailsAfterClose ==
  /\ [][(producer.pc = "send" /\ closed /\ producer' # producer) =>
          /\ producer' = [producer EXCEPT !.pc = "done",
                                          !.result = Err("send", 0)]
          /\ queue' = queue]_vars
  /\ [](producer.result = Err("send", 0) =>
          /\ Failed # {}
          /\ page(producer.page_number, producer.response)[1] = "some"
          /\ Len(producer.requested) = producer.page_number
          /\ producer.page # <<>>
          /\ Head(producer.page) \notin Range(producer.enqueued))

\* The producer waited in a send on the full channel and a worker's failure
\* released it with the send error.
C33_Witness ==
  /\ producer.result = Err("send", 0)
  /\ Len(queue) = Capacity
  /\ Failed # {}

\* C34: a step of a reconcile call for product p and one kind leaves the
\* committed tables of the two other kinds as they were, leaves the rows of
\* every other product in the table of its kind as they were, and holds no
\* change to the rows of another product in its uncommitted transaction.
C34_ReconcileFrame ==
  [][\A w \in DbWorkers :
       (call[w].op = "ensure" /\ call'[w] # call[w]) =>
         /\ \A kind \in Kinds \ {call[w].kind} : assoc'[kind] = assoc[kind]
         /\ \A q \in ProductIds \ {call[w].product_id} :
              /\ RowsOf(assoc'[call[w].kind], q) = RowsOf(assoc[call[w].kind], q)
              /\ wlock' = w =>
                   RowsOf(call'[w].work, q) = RowsOf(assoc[call[w].kind], q)]_vars

\* A call for one product has committed while another product has rows of
\* the same kind.
C34_Witness ==
  \E w \in DbWorkers :
    /\ call[w].op = "ensure" /\ call[w].pc = "ok"
    /\ RowsOf(assoc[call[w].kind], call[w].product_id) # {}
    /\ \E q \in ProductIds \ {call[w].product_id} :
         RowsOf(assoc[call[w].kind], q) # {}

\* C35: when a reconcile call of one worker commits for a product and kind
\* for which the call of another worker has returned Ok, in whatever way the
\* steps of the two calls were interleaved, the keys stored for the product
\* are the target of the one call or the target of the other.
C35_NoMixture ==
  [][\A w \in DbWorkers : \A v \in DbWorkers \ {w} :
       (/\ Commits(w)
        /\ call[v].op = "ensure" /\ call[v].pc = "ok"
        /\ call[v].kind = call[w].kind
        /\ call[v].product_id = call[w].product_id) =>
         {r.key : r \in StoredRowsAfter(w)} \in
           {TargetKeys(w), last[call[w].kind][call[w].product_id].keys}]_vars

(***************************************************************************)
(* C36: when two workers call upsert_product with the same saq_code, the   *)
(* two calls being in progress together, and both have returned Ok, they   *)
(* return the same row id, the products table holds exactly one row with   *)
(* that code, and that row holds the field values of one of the two calls. *)
(***************************************************************************)
BothUpserted(w, v) ==
  /\ ncalls = 2
  /\ call[w].op = "upsert_product" /\ call[w].pc = "ok"
  /\ call[v].op = "upsert_product" /\ call[v].pc = "ok"
  /\ call[w].saq_code = call[v].saq_code

C36_ConcurrentProductUpsert ==
  \A w \in DbWorkers : \A v \in DbWorkers \ {w} :
    BothUpserted(w, v) =>
      /\ call[w].product_id = call[v].product_id
      /\ Cardinality(CodeConflict(products, call[w].saq_code)) = 1
      /\ \A r \in CodeConflict(products, call[w].saq_code) :
           /\ r.id = call[w].product_id
           /\ FieldsMatch(r, call[w].fields) \/ FieldsMatch(r, call[v].fields)

C36_Witness ==
  \E w \in DbWorkers : \E v \in DbWorkers \ {w} :
    /\ BothUpserted(w, v)
    /\ call[w].fields # call[v].fields
    /\ call[w].conflict /\ ~call[v].conflict
    /\ \E r \in products : r.id = call[v].product_id /\ FieldsMatch(r, call[w].fields)

(***************************************************************************)
(* C37: persist_product of a product without special features (or without  *)
(* grape varieties, or whose breadcrumbs hold no category) calls the       *)
(* reconciler of that kind for the product's row with the empty list and   *)
(* goes on only after that call has committed; the commit leaves no        *)
(* association row of that kind for the product, the rows an earlier crawl *)
(* stored being removed.                                                   *)
(***************************************************************************)
EnsureStep ==
  [special_features |-> "ensure_product_special_features",
   grape_varieties |-> "ensure_product_grape_varieties",
   categories |-> "ensure_product_categories"]

ExtractedMembers(kind, product) ==
  CASE kind = "special_features" -> Flatten(product.special_features)
    [] kind = "grape_varieties" -> Flatten(product.grape_varieties)
    [] kind = "categories" -> extract_categories(product).categories

ReconcilesNothing(w, kind) ==
  /\ persist[w].at = "await"
  /\ persist[w].pc = EnsureStep[kind]
  /\ ExtractedMembers(kind, persist[w].product) = <<>>

C37_AbsentMembersRemoved ==
  [][\A w \in Persisters : \A kind \in Kinds :
       ReconcilesNothing(w, kind) =>
         /\ call[w].op = "ensure" /\ call[w].kind = kind
         /\ \E r \in products : /\ r.saq_code = persist[w].product.saq_code
                                 /\ r.id = call[w].product_id
         /\ Commits(w) => RowsOf(assoc'[kind], call[w].product_id) = {}
         /\ persist'[w].pc # persist[w].pc =>
               call[w].pc = "ok" /\ call[w].wrote]_vars

C37_Witness ==
  \E w \in Persisters :
    /\ persist[w].at = "done" /\ persist[w].result = Ok
    /\ persist[w].product = ProductPlain
    /\ \A kind \in Kinds :
         /\ RowsOf(assoc[kind], persist[w].product_id) = {}
         /\ RowsOf(SeedAssoc(kind, NumProducts), persist[w].product_id) # {}
         /\ \E q \in ProductIds : RowsOf(assoc[kind], q) # {}

(***************************************************************************)
(* C38: at every moment the stubs enqueued whose processing has not        *)
(* finished (persisted, or ended by the worker's error) number at most the *)
(* channel's capacity plus the number of workers: the channel holds at     *)
(* most its capacity, and the stubs received and not finished are one for  *)
(* each worker that is fetching or persisting, so no worker has received a *)
(* stub before it finished the one before.                                 *)
(***************************************************************************)
RECURSIVE PersistedUpTo(_)
PersistedUpTo(s) == IF s = 0 THEN 0 ELSE persisted[s] + PersistedUpTo(s - 1)

NumFinished == PersistedUpTo(MaxPages * PageSize) + Cardinality(Failed)

InFlight == Len(producer.enqueued) - NumFinished

C38_InFlightBound ==
  /\ InFlight <= Capacity + NumWorkers
  /\ Len(producer.enqueued) - NumReceived = Len(queue)
  /\ Len(queue) <= Capacity
  /\ NumReceived - NumFinished = Cardinality({w \in Workers : Busy(w)})
  /\ \A w \in Workers : Busy(w) <=> workers[w].stub # 0 /\ workers[w].pc # "done"

C38_Witness ==
  /\ InFlight = Capacity + NumWorkers
  /\ Len(queue) = Capacity
  /\ \A w \in Workers : Busy(w)
  /\ PersistedUpTo(MaxPages * PageSize) > 0

(***************************************************************************)
(* C39: each caller holds at most one pool connection at a time, holds it  *)
(* exactly while a store operation of its is in progress and has given it  *)
(* back when the operation has returned, with Ok or with an error; the     *)
(* connections in use are so at most one per caller, fewer than the pool   *)
(* has, and a caller that is about to begin a store operation can always   *)
(* take its step: it never waits for a connection.                         *)
(***************************************************************************)
InProgress(w) == call[w].pc \notin {"idle", "ok", "err"}

C39_ConnectionsBounded ==
  /\ \A w \in DbWorkers : conns[w] \in {0, 1}
  /\ \A w \in DbWorkers : conns[w] = 1 <=> InProgress(w)
  /\ InUse <= NumDbWorkers
  /\ InUse <= MaxConnections - 2
  /\ \A w \in TwoWorkers : persist[w].at = "enter" => ENABLED PersistEnter(w)

C39_Witness ==
  \E v \in TwoWorkers :
    /\ call[v].pc = "err" /\ conns[v] = 0
    /\ persist[v].at = "await"
    /\ \A w \in TwoWorkers \ {v} : conns[w] = 1 /\ call[w].op = "ensure"

====
